---- MODULE Spec2Model ----
(***************************************************************************)
(* A model of attribs: attribute descriptors (src/attribs/base.py,         *)
(* src/attribs/attributes.py) and their materialisation on a node through  *)
(* the host's modifier (src/attribs/create.py).                            *)
(*                                                                         *)
(* Python values are tagged records, so that values of different types can *)
(* be compared.  A float is an exact rational times a power of pi,         *)
(* (n/d) * pi^k, which makes the unit conversions of MAngle and MDistance  *)
(* exact.                                                                  *)
(***************************************************************************)
EXTENDS Integers, Sequences, FiniteSets, TLC

VARIABLES
    num,       \* a NumericAttribute descriptor
    comp,      \* a NumericCompoundAttribute descriptor (with its children)
    enum,      \* an Enum descriptor
    attr,      \* a plain Attribute descriptor
    mat,       \* a DoubleMatrix or FloatMatrix descriptor
    node,      \* the dependency node attributes are added to
    modifier,  \* the caller's MDGModifier
    desc,      \* a descriptor of any kind, as the caller built it
    native,    \* the native attribute create_mobject made of desc
    given,     \* history: what the caller gave the constructor, and since
    heap,      \* descriptors by identity, and the native attributes made and
               \* plugs visited for each
    assigned,  \* history: the index last assigned to enum.default with success
    last       \* what the last operation was and how it ended

vars ==
    <<num, comp, enum, assigned, attr, mat, node, modifier, desc, native,
      given, heap, last>>

----------------------------------------------------------------------------
(* Bounds of the model. *)

\* The keys of an Enum's fields given as a dict are in 0..MaxKey.
MaxKey == 1

\* The longest list of names given as an Enum's fields.
MaxLen == 2

\* The most keyword arguments given to Attribute.
MaxKwargs == 2

\* The matrices assigned to a matrix default are TestMatrix(1..MaxEntry).
MaxEntry == 3

\* The most children a Compound is given, by its constructor and by append.
MaxChildren == 2


----------------------------------------------------------------------------
(* Python values. *)

None == [t |-> "None"]

\* value is None: an identity test, which a tuple of any length fails.  (A
\* tuple and None are not comparable with =; the strings are compared where
\* the number of elements does not tell them apart.)
IsNone(value) ==
    IF Cardinality(DOMAIN value) # 1 THEN FALSE
    ELSE ToString(value) = ToString(None)

Float(n, d, k) == [t |-> "float", n |-> n, d |-> d, k |-> k]

PyInt(n) == [t |-> "int", n |-> n]

Str(s) == [t |-> "str", s |-> s]

IsNumber(v) == v.t \in {"float", "int"}

Abs(x) == IF x < 0 THEN -x ELSE x

RECURSIVE Gcd(_, _)
Gcd(a, b) == IF b = 0 THEN a ELSE Gcd(b, a % b)

\* The float n/d * pi^k in lowest terms, the denominator positive.
Norm(n, d, k) ==
    IF n = 0 THEN Float(0, 1, 0)
    ELSE LET g == Gcd(Abs(n), Abs(d))
             s == IF d < 0 THEN -1 ELSE 1
         IN  Float((s * n) \div g, (s * d) \div g, k)

\* A number as a float: float(x) for an int or a float x.
AsFloat(v) == IF v.t = "int" THEN Float(v.n, 1, 0) ELSE v

FMul(a, b) == Norm(a.n * b.n, a.d * b.d, a.k + b.k)

FDiv(a, b) == Norm(a.n * b.d, a.d * b.n, a.k - b.k)

\* The integer part taken downwards instead of toward zero.
TruncDown(v) ==
    IF v.n >= 0 \/ v.n % v.d = 0 THEN PyInt(v.n \div v.d)
    ELSE PyInt(-((-v.n) \div v.d) - 1)

\* int(x) of a float truncates toward zero.
Trunc(v) ==
    IF v.n >= 0 THEN PyInt(v.n \div v.d) ELSE PyInt(-((-v.n) \div v.d))

----------------------------------------------------------------------------
(* The host's unit types, OpenMaya.MAngle and OpenMaya.MDistance: a value  *)
(* and the unit it is expressed in.                                        *)

kRadians == "kRadians"
kDegrees == "kDegrees"
kCentimeters == "kCentimeters"
kMeters == "kMeters"

AngleUnits == {kRadians, kDegrees}
DistanceUnits == {kCentimeters, kMeters}

\* One unit expressed in the type's base unit (radians, centimeters).
UnitFactor(u) ==
    CASE u = kRadians -> Float(1, 1, 0)
      [] u = kDegrees -> Float(1, 180, 1)
      [] u = kCentimeters -> Float(1, 1, 0)
      [] u = kMeters -> Float(100, 1, 0)

MAngle(value, unit) == [t |-> "MAngle", value |-> value, unit |-> unit]

MDistance(value, unit) == [t |-> "MDistance", value |-> value, unit |-> unit]

IsUnitValue(v) == v.t \in {"MAngle", "MDistance"}

\* value.asUnits(unit): the magnitude of the quantity in another unit.
asUnits(v, unit) == FDiv(FMul(v.value, UnitFactor(v.unit)), UnitFactor(unit))

\* The physical quantity a unit value denotes, in the base unit.
Quantity(v) == FMul(v.value, UnitFactor(v.unit))

----------------------------------------------------------------------------
(* Exceptions: what a call raised, NoExc when it returned. *)

NoExc == [type |-> "none", msg |-> <<>>]

Exc(type, msg) == [type |-> type, msg |-> msg]

Raised(r) == r.exc.type # "none"

----------------------------------------------------------------------------
(* Attribute (base.py). *)

\* OpenMaya.MFnAttribute.kNothing
kNothing == 2

\* kwargs.pop(key, dflt)
Pop(kwargs, key, dflt) == IF key \in DOMAIN kwargs THEN kwargs[key] ELSE dflt

\* OpenMaya.MFnAttribute.kDelete
kDelete == 0

\* OpenMaya.MFnAttribute.kReset
kReset == 1

\* Attribute.__init__ with keyable defaulting to True.
AttributeInitKeyable(name, kwargs) ==
    [name |-> name,
     short_name |-> Pop(kwargs, "short_name", None),
     affects_appearence |-> Pop(kwargs, "affects_appearence", FALSE),
     affects_world_space |-> Pop(kwargs, "affects_world_space", FALSE),
     cached |-> Pop(kwargs, "cached", TRUE),
     channel_box |-> Pop(kwargs, "channel_box", FALSE),
     connectable |-> Pop(kwargs, "connectable", TRUE),
     disconnect_behavior |-> Pop(kwargs, "disconnect_behavior", kNothing),
     hidden |-> Pop(kwargs, "hidden", FALSE),
     indeterminant |-> Pop(kwargs, "indeterminant", FALSE),
     index_matters |-> Pop(kwargs, "index_matters", TRUE),
     internal |-> Pop(kwargs, "internal", FALSE),
     keyable |-> Pop(kwargs, "keyable", TRUE),
     readable |-> Pop(kwargs, "readable", TRUE),
     render_source |-> Pop(kwargs, "render_source", FALSE),
     storable |-> Pop(kwargs, "storable", TRUE),
     writable |-> Pop(kwargs, "writable", TRUE)]

\* Attribute.__init__(name, **kwargs)
AttributeInit(name, kwargs) ==
    [name |-> name,
     short_name |-> Pop(kwargs, "short_name", None),
     affects_appearence |-> Pop(kwargs, "affects_appearence", FALSE),
     affects_world_space |-> Pop(kwargs, "affects_world_space", FALSE),
     cached |-> Pop(kwargs, "cached", TRUE),
     channel_box |-> Pop(kwargs, "channel_box", FALSE),
     connectable |-> Pop(kwargs, "connectable", TRUE),
     disconnect_behavior |-> Pop(kwargs, "disconnect_behavior", kNothing),
     hidden |-> Pop(kwargs, "hidden", FALSE),
     indeterminant |-> Pop(kwargs, "indeterminant", FALSE),
     index_matters |-> Pop(kwargs, "index_matters", TRUE),
     internal |-> Pop(kwargs, "internal", FALSE),
     keyable |-> Pop(kwargs, "keyable", FALSE),
     readable |-> Pop(kwargs, "readable", TRUE),
     render_source |-> Pop(kwargs, "render_source", FALSE),
     storable |-> Pop(kwargs, "storable", TRUE),
     writable |-> Pop(kwargs, "writable", TRUE)]

NoKwargs == <<>>

----------------------------------------------------------------------------
(* Numeric attributes (base.py, attributes.py). *)

\* The five properties, in the order the constructors assign them.
Props == <<"default", "min", "max", "soft_min", "soft_max">>

PropSet == {Props[i] : i \in 1..Len(Props)}

NoUnit == "None"

\* NUMERIC_CLS of each NumericAttribute subclass.
NUMERIC_CLS(cls) ==
    CASE cls \in {"Double", "Float"} -> "float"
      [] cls \in {"Long", "Short"} -> "int"
      [] cls = "Angle" -> "MAngle"
      [] cls = "Distance" -> "MDistance"

\* DEFAULT_UNIT of each NumericAttribute and NumericCompoundAttribute subclass.
DEFAULT_UNIT(cls) ==
    CASE cls \in {"Angle", "Angle2", "Angle3", "Angle4"} -> kDegrees
      [] cls \in {"Distance", "Distance2", "Distance3"} -> kCentimeters
      [] OTHER -> NoUnit

\* numeric_cls(value, *args): the constructor call of NumericProperty.__set__.
\* float() and int() of a non-numeric string raise ValueError, of any other
\* object TypeError; MAngle and MDistance accept a number only.
Construct(numeric_cls, value, unit) ==
    CASE numeric_cls = "float" ->
            IF IsNumber(value) THEN [exc |-> NoExc, val |-> AsFloat(value)]
            ELSE IF value.t = "str"
                 THEN [exc |-> Exc("ValueError", <<>>), val |-> None]
                 ELSE [exc |-> Exc("TypeError", <<>>), val |-> None]
      [] numeric_cls = "int" ->
            IF value.t = "int" THEN [exc |-> NoExc, val |-> value]
            ELSE IF value.t = "float" THEN [exc |-> NoExc, val |-> Trunc(value)]
            ELSE IF value.t = "str"
                 THEN [exc |-> Exc("ValueError", <<>>), val |-> None]
                 ELSE [exc |-> Exc("TypeError", <<>>), val |-> None]
      [] OTHER ->
            IF IsNumber(value)
            THEN [exc |-> NoExc,
                  val |-> [t |-> numeric_cls, value |-> AsFloat(value),
                           unit |-> unit]]
            ELSE [exc |-> Exc("TypeError", <<>>), val |-> None]

\* Coerce with the conversion left out: a value in another unit keeps its
\* magnitude and takes the attribute's unit.
CoerceNoConversion(obj, value) ==
    LET numeric_cls == NUMERIC_CLS(obj.cls)
        unit == obj.unit
    IN  IF value = None THEN [exc |-> NoExc, val |-> None]
        ELSE IF numeric_cls \in {"float", "int"} \/ value.t # numeric_cls
             THEN Construct(numeric_cls, value, unit)
        ELSE [exc |-> NoExc, val |-> [value EXCEPT !.unit = unit]]

\* Coerce without the isinstance test: every value goes to the constructor.
CoerceAlwaysConstruct(obj, value) ==
    IF value = None THEN [exc |-> NoExc, val |-> None]
    ELSE Construct(NUMERIC_CLS(obj.cls), value, obj.unit)

\* The value NumericProperty.__set__ stores for `value`, or what it raises.
Coerce(obj, value) ==
    LET numeric_cls == NUMERIC_CLS(obj.cls)
        unit == obj.unit
    IN  IF value = None THEN [exc |-> NoExc, val |-> None]
        ELSE IF numeric_cls \in {"float", "int"}
             THEN Construct(numeric_cls, value, unit)
        ELSE IF value.t # numeric_cls
             THEN Construct(numeric_cls, value, unit)
        ELSE IF unit # NoUnit /\ value.unit # unit
             THEN [exc |-> NoExc,
                   val |-> [t |-> numeric_cls, value |-> asUnits(value, unit),
                            unit |-> unit]]
        ELSE [exc |-> NoExc, val |-> value]

\* NumericProperty.__set__(obj, value) for the property called `name`.
NumericPropertySet(obj, name, value) ==
    LET c == Coerce(obj, value)
    IN  IF Raised(c) THEN [exc |-> c.exc, obj |-> obj]
        ELSE [exc |-> NoExc, obj |-> [obj EXCEPT ![name] = c.val]]

\* NumericProperty.__get__(obj)
NumericPropertyGet(obj, name) == obj[name]

\* setattr(self, p, args[p]) for the properties from the i-th on.
RECURSIVE NumericSetAll(_, _, _)
NumericSetAll(obj, args, i) ==
    IF i > Len(Props) THEN [exc |-> NoExc, obj |-> obj]
    ELSE LET r == NumericPropertySet(obj, Props[i], args[Props[i]])
         IN  IF Raised(r) THEN r ELSE NumericSetAll(r.obj, args, i + 1)

\* NumericAttribute.__init__(name, default=, min=, max=, soft_min=,
\* soft_max=, unit=, **kwargs); args maps each property to its argument.
NumericAttributeInit(cls, name, args, unit, kwargs) ==
    LET base == AttributeInit(name, kwargs) @@
                [cls |-> cls,
                 unit |-> IF unit # NoUnit THEN unit ELSE DEFAULT_UNIT(cls),
                 default |-> None, min |-> None, max |-> None,
                 soft_min |-> None, soft_max |-> None]
    IN  NumericSetAll(base, args, 1)

NoArgs == [p \in PropSet |-> None]

----------------------------------------------------------------------------
(* Numeric compound attributes (base.py, attributes.py). *)

\* CHILD_CLS of each NumericCompoundAttribute subclass.
CHILD_CLS(cls) ==
    CASE cls \in {"Double2", "Double3", "Double4"} -> "Double"
      [] cls \in {"Distance2", "Distance3"} -> "Distance"
      [] cls \in {"Angle2", "Angle3", "Angle4"} -> "Angle"
      [] cls \in {"Float2", "Float3", "Color"} -> "Float"
      [] cls \in {"Long2", "Long3"} -> "Long"
      [] cls \in {"Short2", "Short3"} -> "Short"

\* CHILD_SUFFIXES of each NumericCompoundAttribute subclass.
CHILD_SUFFIXES(cls) ==
    CASE cls \in {"Double2", "Distance2", "Angle2", "Float2", "Long2", "Short2"}
            -> <<"X", "Y">>
      [] cls \in {"Double3", "Distance3", "Angle3", "Float3", "Long3", "Short3"}
            -> <<"X", "Y", "Z">>
      [] cls \in {"Double4", "Angle4"} -> <<"X", "Y", "Z", "W">>
      [] cls = "Color" -> <<"R", "G", "B">>

\* NumericCompoundProperty.get_children(obj)
get_children(obj) == obj.children

\* The getter reading the children in reverse order.
NumericCompoundPropertyGetReversed(obj, name) ==
    [i \in 1..Len(get_children(obj)) |->
        NumericPropertyGet(get_children(obj)[Len(get_children(obj)) + 1 - i],
                           name)]

\* NumericCompoundProperty.__get__(obj): the children's values, in order.
NumericCompoundPropertyGet(obj, name) ==
    [i \in 1..Len(get_children(obj)) |-> NumericPropertyGet(get_children(obj)[i], name)]

Min(a, b) == IF a < b THEN a ELSE b

\* Revert with the loop left out: nothing is restored.
RevertNothing(children, name, backup, j) ==
    [exc |-> NoExc, children |-> children]

\* The revert loop: setattr(backup_child, name, backup_value) for each entry
\* of backup, a sequence of <<child index, saved value>>, from the j-th on.
\* A setter that raises here ends the loop with its own exception.
RECURSIVE Revert(_, _, _, _)
Revert(children, name, backup, j) ==
    IF j > Len(backup) THEN [exc |-> NoExc, children |-> children]
    ELSE LET i == backup[j][1]
             r == NumericPropertySet(children[i], name, backup[j][2])
         IN  IF Raised(r) THEN [exc |-> r.exc, children |-> children]
             ELSE Revert([children EXCEPT ![i] = r.obj], name, backup, j + 1)

\* The loop of NumericCompoundProperty.__set__ over zip(children, value),
\* from the i-th pair on; failed is the index of the child whose setter
\* raised, 0 when none did.
RECURSIVE SetChildren(_, _, _, _, _)
SetChildren(children, name, value, i, backup) ==
    IF i > Min(Len(children), Len(value))
    THEN [exc |-> NoExc, children |-> children, failed |-> 0]
    ELSE LET bckp_val == NumericPropertyGet(children[i], name)
             r == NumericPropertySet(children[i], name, value[i])
         IN  IF Raised(r)
             THEN LET rv == Revert(children, name, backup, 1)
                  IN  [exc |-> IF Raised(rv) THEN rv.exc ELSE r.exc,
                       children |-> rv.children, failed |-> i]
             ELSE SetChildren([children EXCEPT ![i] = r.obj], name, value,
                              i + 1, Append(backup, <<i, bckp_val>>))

\* The setter with a short tuple padded with None up to the number of
\* children.
NumericCompoundPropertySetPadded(obj, name, value) ==
    LET children == get_children(obj)
        tuple == [i \in 1..Len(children) |->
                     IF IsNone(value) THEN None
                     ELSE IF i <= Len(value) THEN value[i] ELSE None]
        r == SetChildren(children, name, tuple, 1, <<>>)
    IN  [exc |-> r.exc, obj |-> [obj EXCEPT !.children = r.children],
         failed |-> r.failed]

\* NumericCompoundProperty.__set__(obj, value) for the property called
\* `name`; value is None or a tuple.
NumericCompoundPropertySet(obj, name, value) ==
    LET children == get_children(obj)
        tuple == IF IsNone(value) THEN [i \in 1..Len(children) |-> None]
                 ELSE value
        r == SetChildren(children, name, tuple, 1, <<>>)
    IN  [exc |-> r.exc, obj |-> [obj EXCEPT !.children = r.children],
         failed |-> r.failed]

RECURSIVE CompoundSetAll(_, _, _)
CompoundSetAll(obj, args, i) ==
    IF i > Len(Props) THEN [exc |-> NoExc, obj |-> obj]
    ELSE LET r == NumericCompoundPropertySet(obj, Props[i], args[Props[i]])
         IN  IF Raised(r) THEN [exc |-> r.exc, obj |-> r.obj]
             ELSE CompoundSetAll(r.obj, args, i + 1)

\* The constructor with the unit argument handed to every child.
NumericCompoundAttributeInitChildUnit(cls, name, args, unit, kwargs) ==
    LET suffixes == CHILD_SUFFIXES(cls)
        children == [i \in 1..Len(suffixes) |->
                        NumericAttributeInit(CHILD_CLS(cls), name \o suffixes[i],
                                             NoArgs, unit, NoKwargs).obj]
        base == AttributeInit(name, kwargs) @@
                [cls |-> cls, children |-> children,
                 unit |-> IF unit # NoUnit THEN unit ELSE DEFAULT_UNIT(cls)]
    IN  CompoundSetAll(base, args, 1)

\* NumericCompoundAttribute.__init__(name, default=, min=, max=, soft_min=,
\* soft_max=, unit=, **kwargs)
NumericCompoundAttributeInit(cls, name, args, unit, kwargs) ==
    LET suffixes == CHILD_SUFFIXES(cls)
        children == [i \in 1..Len(suffixes) |->
                        NumericAttributeInit(CHILD_CLS(cls), name \o suffixes[i],
                                             NoArgs, NoUnit, NoKwargs).obj]
        base == AttributeInit(name, kwargs) @@
                [cls |-> cls, children |-> children,
                 unit |-> IF unit # NoUnit THEN unit ELSE DEFAULT_UNIT(cls)]
    IN  CompoundSetAll(base, args, 1)

----------------------------------------------------------------------------
(* Enum (attributes.py). *)

\* The fields argument of Enum.__init__: None, a list of names or a dict.
FieldList(items) == [t |-> "list", items |-> items]

FieldDict(items) == [t |-> "dict", items |-> items]

\* self._fields[index] = field
SetItem(fields, index, field) ==
    [k \in DOMAIN fields \cup {index} |-> IF k = index THEN field ELSE fields[k]]

\* The loop over enumerate(fields) with the count started at 1.
RECURSIVE FieldsFromListOneBased(_, _, _)
FieldsFromListOneBased(fields, items, i) ==
    IF i > Len(items) THEN fields
    ELSE FieldsFromListOneBased(SetItem(fields, i, items[i]), items, i + 1)

\* for index, field in enumerate(fields): self._fields[index] = field,
\* from the i-th item of the list on.
RECURSIVE FieldsFromList(_, _, _)
FieldsFromList(fields, items, i) ==
    IF i > Len(items) THEN fields
    ELSE FieldsFromList(SetItem(fields, i - 1, items[i]), items, i + 1)

\* for index, field in fields.items(): self._fields[index] = field,
\* over the keys not yet copied.
RECURSIVE FieldsFromDict(_, _, _)
FieldsFromDict(fields, items, keys) ==
    IF keys = {} THEN fields
    ELSE LET k == CHOOSE x \in keys : TRUE
         IN  FieldsFromDict(SetItem(fields, k, items[k]), items, keys \ {k})

SetMin(S) == CHOOSE k \in S : \A j \in S : k <= j

SetMax(S) == CHOOSE k \in S : \A j \in S : k >= j

\* The getter with max() for min().
EnumDefaultGetMax(obj) ==
    IF obj._default # None THEN obj._default
    ELSE IF DOMAIN obj._fields # {} THEN PyInt(SetMax(DOMAIN obj._fields))
    ELSE PyInt(0)

\* The getter without the fallback to the smallest key.
EnumDefaultGetZero(obj) ==
    IF obj._default # None THEN obj._default ELSE PyInt(0)

\* Enum.default (getter)
EnumDefaultGet(obj) ==
    IF obj._default # None THEN obj._default
    ELSE IF DOMAIN obj._fields # {} THEN PyInt(SetMin(DOMAIN obj._fields))
    ELSE PyInt(0)

\* Enum.fields: a read-only view of the mapping.
EnumFields(obj) == obj._fields

InvalidIndex(value) == Exc("ValueError", <<"Invalid index", value.n>>)

\* The setter with the assignment made before the check.
EnumDefaultSetUnchecked(obj, value) ==
    IF value.n \notin DOMAIN obj._fields
    THEN [exc |-> InvalidIndex(value), obj |-> [obj EXCEPT !._default = value]]
    ELSE [exc |-> NoExc, obj |-> [obj EXCEPT !._default = value]]

\* Enum.default (setter)
EnumDefaultSet(obj, value) ==
    IF value.n \notin DOMAIN obj._fields
    THEN [exc |-> InvalidIndex(value), obj |-> obj]
    ELSE [exc |-> NoExc, obj |-> [obj EXCEPT !._default = value]]

\* Enum.__init__(name, fields=, default=, **kwargs)
EnumInit(name, fields, default, kwargs) ==
    LET _fields ==
            CASE fields.t = "list" -> FieldsFromList(<<>>, fields.items, 1)
              [] fields.t = "dict" ->
                    FieldsFromDict(<<>>, fields.items, DOMAIN fields.items)
              [] OTHER -> <<>>
        base == AttributeInit(name, kwargs) @@
                [cls |-> "Enum", _fields |-> _fields, _default |-> None]
    IN  IF default # None THEN EnumDefaultSet(base, default)
        ELSE [exc |-> NoExc, obj |-> base]

----------------------------------------------------------------------------
(* Matrix attributes (base.py, attributes.py). *)

MMatrix(m) == [t |-> "MMatrix", m |-> m]

MTransformationMatrix(m) == [t |-> "MTransformationMatrix", m |-> m]

\* A Python list of numbers.
PyList(items) == [t |-> "list", items |-> items]

\* OpenMaya.MMatrix.kIdentity
kIdentity == MMatrix(<<1, 0, 0, 0,  0, 1, 0, 0,  0, 0, 1, 0,  0, 0, 0, 1>>)

\* MTransformationMatrix.asMatrix()
asMatrix(value) == MMatrix(value.m)

\* MatrixProperty.__get__(obj): obj.__dict__.get(name, self._default)
MatrixPropertyGet(obj) ==
    IF "default" \in DOMAIN obj THEN obj.default ELSE kIdentity

\* obj.__dict__[name] = value
DictSet(obj, name, value) ==
    [k \in DOMAIN obj \cup {name} |-> IF k = name THEN value ELSE obj[k]]

\* The setter without the MTransformationMatrix branch.
MatrixPropertySetNoTransformation(obj, value) ==
    IF value.t = "list"
    THEN IF Len(value.items) = 16
         THEN [exc |-> NoExc,
               obj |-> DictSet(obj, "default", MMatrix(value.items))]
         ELSE [exc |-> Exc("ValueError",
                           <<"Expected 16 floats, got", Len(value.items)>>),
               obj |-> obj]
    ELSE IF value.t # "MMatrix"
         THEN [exc |-> Exc("TypeError", <<value.t>>), obj |-> obj]
         ELSE [exc |-> NoExc, obj |-> DictSet(obj, "default", value)]

\* The setter with the value stored before it is checked.
MatrixPropertySetEarlyStore(obj, value) ==
    IF value.t = "list" /\ Len(value.items) # 16
    THEN [exc |-> Exc("ValueError",
                      <<"Expected 16 floats, got", Len(value.items)>>),
          obj |-> DictSet(obj, "default", value)]
    ELSE IF value.t \notin {"list", "MMatrix", "MTransformationMatrix"}
         THEN [exc |-> Exc("TypeError", <<value.t>>),
               obj |-> DictSet(obj, "default", value)]
         ELSE [exc |-> NoExc,
               obj |-> DictSet(obj, "default", MMatrix(
                           IF value.t = "list" THEN value.items ELSE value.m))]

\* MatrixProperty.__set__(obj, value)
MatrixPropertySet(obj, value) ==
    LET converted ==
            IF value.t = "list"
            THEN IF Len(value.items) = 16
                 THEN [exc |-> NoExc, val |-> MMatrix(value.items)]
                 ELSE [exc |-> Exc("ValueError",
                                   <<"Expected 16 floats, got", Len(value.items)>>),
                       val |-> value]
            ELSE IF value.t = "MTransformationMatrix"
                 THEN [exc |-> NoExc, val |-> asMatrix(value)]
                 ELSE [exc |-> NoExc, val |-> value]
    IN  IF Raised(converted) THEN [exc |-> converted.exc, obj |-> obj]
        ELSE IF converted.val.t # "MMatrix"
             THEN [exc |-> Exc("TypeError", <<converted.val.t>>), obj |-> obj]
        ELSE [exc |-> NoExc, obj |-> DictSet(obj, "default", converted.val)]

\* DoubleMatrix.__init__ and FloatMatrix.__init__(name, default=, **kwargs);
\* default is None when the caller gives none.
MatrixInit(cls, name, default, kwargs) ==
    MatrixPropertySet(AttributeInit(name, kwargs) @@ [cls |-> cls], default)

----------------------------------------------------------------------------
(* The other descriptors (attributes.py). *)

\* Message(name, **kwargs)
MessageInit(name, kwargs) == AttributeInit(name, kwargs) @@ [cls |-> "Message"]

\* Curve(name, **kwargs)
CurveInit(name, kwargs) == AttributeInit(name, kwargs) @@ [cls |-> "Curve"]

\* String.__init__(name, default=, as_filename=, **kwargs)
StringInit(name, default, as_filename, kwargs) ==
    AttributeInit(name, kwargs) @@
    [cls |-> "String", as_filename |-> as_filename, default |-> default]

\* Bool.__init__(name, default=, **kwargs)
BoolInit(name, default, kwargs) ==
    AttributeInit(name, kwargs) @@ [cls |-> "Bool", default |-> default]

\* Compound.__init__(name, children=, **kwargs)
CompoundInit(name, children, kwargs) ==
    AttributeInit(name, kwargs) @@ [cls |-> "Compound", _children |-> children]

\* Compound.append(attribute)
CompoundAppend(obj, attribute) ==
    [obj EXCEPT !._children = Append(@, attribute)]

\* Compound.children
CompoundChildren(obj) == obj._children

AllNumericClasses == {"Double", "Float", "Long", "Short", "Angle", "Distance"}

AllCompoundClasses ==
    {"Double2", "Double3", "Double4", "Distance2", "Distance3", "Angle2",
     "Angle3", "Angle4", "Float2", "Float3", "Color", "Long2", "Long3",
     "Short2", "Short3"}

MatrixClasses == {"DoubleMatrix", "FloatMatrix"}

\* getattr(current, "children", [])
ChildrenOf(attribute) ==
    IF attribute.cls = "Compound" THEN CompoundChildren(attribute)
    ELSE IF attribute.cls \in AllCompoundClasses THEN attribute.children
    ELSE <<>>

----------------------------------------------------------------------------
(* The host's attribute objects (create.py: create_mobject, get_mfn_args). *)

PyBool(b) == [t |-> "bool", b |-> b]

\* A member of one of the host's enumerations: its name and integer value.
TypeTag(of, n) == [t |-> "type", of |-> of, n |-> n]

\* OpenMaya.MFnData.kInvalid
kInvalid == TypeTag("MFnData.kInvalid", 0)

\* The MFN_CLS class attribute of each descriptor class.
MFN_CLS(cls) ==
    CASE cls = "Message" -> "MFnMessageAttribute"
      [] cls \in MatrixClasses -> "MFnMatrixAttribute"
      [] cls \in {"String", "Curve"} -> "MFnTypedAttribute"
      [] cls = "Compound" -> "MFnCompoundAttribute"
      [] cls = "Enum" -> "MFnEnumAttribute"
      [] cls \in {"Angle", "Distance"} -> "MFnUnitAttribute"
      [] cls \in {"Bool", "Double", "Float", "Long", "Short"}
            \cup AllCompoundClasses -> "MFnNumericAttribute"
      [] OTHER -> "MFnAttribute"

\* The DATA_TYPE class attribute of each descriptor class, with the value
\* the host's headers give the enumerator.
DATA_TYPE(cls) ==
    CASE cls = "DoubleMatrix" -> TypeTag("MFnMatrixAttribute.kDouble", 1)
      [] cls = "FloatMatrix" -> TypeTag("MFnMatrixAttribute.kFloat", 0)
      [] cls = "String" -> TypeTag("MFnData.kString", 4)
      [] cls = "Curve" -> TypeTag("MFnData.kNurbsCurve", 16)
      [] cls = "Bool" -> TypeTag("MFnNumericData.kBoolean", 1)
      [] cls = "Double" -> TypeTag("MFnNumericData.kDouble", 14)
      [] cls \in {"Double2", "Distance2", "Angle2"} ->
            TypeTag("MFnNumericData.k2Double", 15)
      [] cls \in {"Double3", "Distance3", "Angle3"} ->
            TypeTag("MFnNumericData.k3Double", 16)
      [] cls \in {"Double4", "Angle4"} -> TypeTag("MFnNumericData.k4Double", 17)
      [] cls = "Distance" -> TypeTag("MFnUnitAttribute.kDistance", 2)
      [] cls = "Angle" -> TypeTag("MFnUnitAttribute.kAngle", 1)
      [] cls = "Float" -> TypeTag("MFnNumericData.kFloat", 11)
      [] cls = "Float2" -> TypeTag("MFnNumericData.k2Float", 12)
      [] cls \in {"Float3", "Color"} -> TypeTag("MFnNumericData.k3Float", 13)
      [] cls = "Long" -> TypeTag("MFnNumericData.kLong", 7)
      [] cls = "Long2" -> TypeTag("MFnNumericData.k2Long", 8)
      [] cls = "Long3" -> TypeTag("MFnNumericData.k3Long", 9)
      [] cls = "Short" -> TypeTag("MFnNumericData.kShort", 4)
      [] cls = "Short2" -> TypeTag("MFnNumericData.k2Short", 5)
      [] cls = "Short3" -> TypeTag("MFnNumericData.k3Short", 6)
      [] OTHER -> kInvalid

\* MFnStringData().create() followed by set(default)
MFnStringData(default) == [t |-> "MFnStringData", s |-> default]

\* The limits create_mobject hands to setMin, setMax, setSoftMin, setSoftMax.
LimitSetters ==
    [min |-> "setMin", max |-> "setMax",
     soft_min |-> "setSoftMin", soft_max |-> "setSoftMax"]

\* The flags of a native attribute as mfn.create leaves them, for the flags
\* create_mobject does not assign.
MFnAttributeDefaults ==
    [cached |-> TRUE, internal |-> FALSE, affectsAppearance |-> FALSE,
     affectsWorldSpace |-> FALSE, indeterminant |-> FALSE,
     indexMatters |-> TRUE, renderSource |-> FALSE]

RECURSIVE create_mobject(_)
RECURSIVE get_mfn_args(_)

\* The short name taken to be the long name always.
ShortNameIgnored(attribute) == Str(attribute.name)

\* attribute.short_name or attribute.name
ShortName(attribute) ==
    IF attribute.short_name \in {None, Str("")}
    THEN Str(attribute.name) ELSE attribute.short_name

\* The children's native attributes in reverse order.
ChildArgsReversed(attribute) ==
    [i \in 1..Len(attribute.children) |->
        create_mobject(attribute.children[Len(attribute.children) + 1 - i])]

\* create_mobject(c) for c in attribute.children
ChildArgs(attribute) ==
    [i \in 1..Len(attribute.children) |-> create_mobject(attribute.children[i])]

\* The default handed over as the stored magnitude, whatever the unit.
NumericDefaultArgStored(attribute) ==
    LET default == NumericPropertyGet(attribute, "default")
    IN  IF IsUnitValue(default) THEN default.value ELSE default

\* getattr(default, "asUnits", lambda _: default)(attribute.unit)
NumericDefaultArg(attribute) ==
    LET default == NumericPropertyGet(attribute, "default")
    IN  IF IsUnitValue(default) THEN asUnits(default, attribute.unit)
        ELSE default

\* get_mfn_args(attribute)
get_mfn_args(attribute) ==
    LET args == <<Str(attribute.name), ShortName(attribute)>>
        typed == IF DATA_TYPE(attribute.cls).n # kInvalid.n
                 THEN Append(args, DATA_TYPE(attribute.cls)) ELSE args
    IN  IF attribute.cls \in AllCompoundClasses
        THEN args \o ChildArgs(attribute)
        ELSE IF attribute.cls = "Bool" THEN Append(typed, attribute.default)
        ELSE IF attribute.cls = "Enum"
             THEN Append(typed, EnumDefaultGet(attribute))
        ELSE IF attribute.cls = "String"
             THEN Append(typed, MFnStringData(attribute.default))
        ELSE IF /\ attribute.cls \in AllNumericClasses
                /\ NumericPropertyGet(attribute, "default") # None
             THEN Append(typed, NumericDefaultArg(attribute))
        ELSE typed

\* The limits with the soft ones left out.
LimitsHardOnly(attribute) ==
    LET set == {p \in {"min", "max"} :
                    /\ attribute.cls \in AllNumericClasses
                    /\ NumericPropertyGet(attribute, p) # None}
    IN  [p \in set |-> NumericPropertyGet(attribute, p)]

\* The setMin, setMax, setSoftMin and setSoftMax calls of create_mobject:
\* the limit each call is given, by the property it comes from.
Limits(attribute) ==
    LET set == {p \in DOMAIN LimitSetters :
                    /\ attribute.cls \in AllNumericClasses
                    /\ NumericPropertyGet(attribute, p) # None}
    IN  [p \in set |-> NumericPropertyGet(attribute, p)]

\* Only the first child added.
AddedChildrenFirst(attribute) ==
    IF attribute.cls = "Compound" /\ CompoundChildren(attribute) # <<>>
    THEN <<create_mobject(CompoundChildren(attribute)[1])>>
    ELSE <<>>

\* for child in attribute.children: mfn.addChild(create_mobject(child))
AddedChildren(attribute) ==
    IF attribute.cls = "Compound"
    THEN [i \in 1..Len(CompoundChildren(attribute)) |->
             create_mobject(CompoundChildren(attribute)[i])]
    ELSE <<>>

\* create_mobject(attribute)
create_mobject(attribute) ==
    [t |-> "MObject",
     mfn |-> MFN_CLS(attribute.cls),
     args |-> get_mfn_args(attribute),
     keyable |-> attribute.keyable,
     channelBox |-> attribute.channel_box,
     hidden |-> attribute.hidden,
     storable |-> attribute.storable,
     connectable |-> attribute.connectable,
     readable |-> attribute.readable,
     writable |-> attribute.writable,
     disconnectBehavior |-> attribute.disconnect_behavior,
     limits |-> Limits(attribute),
     fields |-> IF attribute.cls = "Enum" THEN EnumFields(attribute)
                ELSE <<>>,
     usedAsFilename |-> IF attribute.cls = "String"
                        THEN attribute.as_filename ELSE FALSE,
     usedAsColor |-> attribute.cls = "Color",
     children |-> AddedChildren(attribute)]
    @@ MFnAttributeDefaults

----------------------------------------------------------------------------
(* The host's node and modifier, as add_attribute uses them (create.py). *)

Range(f) == {f[x] : x \in DOMAIN f}

\* The attribute objects given to mfn.create as children and to addChild.
MObjectChildren(mobject) ==
    SelectSeq(mobject.args, LAMBDA a : a.t = "MObject") \o mobject.children

\* An attribute object with all its descendants.
RECURSIVE MObjectTree(_)
MObjectTree(mobject) ==
    {mobject} \cup UNION {MObjectTree(c) : c \in Range(MObjectChildren(mobject))}

MObjectName(mobject) == mobject.args[1].s

MObjectNames(mobject) == {MObjectName(m) : m \in MObjectTree(mobject)}

\* The value of a plug when its attribute is created: the default given to
\* mfn.create (the identity for a matrix attribute, which takes none).
MObjectDefault(mobject) ==
    LET a == mobject.args[Len(mobject.args)]
    IN  IF mobject.mfn = "MFnMatrixAttribute" THEN kIdentity
        ELSE IF Len(mobject.args) > 2 /\ a.t \notin {"type", "MObject"} THEN a
        ELSE None

\* plug.child(i) for i in range(plug.numChildren()): the names of the child
\* plugs of the plug called name.
PlugChildren(n, name) ==
    [i \in 1..Len(MObjectChildren(n.attrs[name])) |->
        MObjectName(MObjectChildren(n.attrs[name])[i])]

\* The node once an attribute object and its children are on it.
NodeAdd(n, mobject) ==
    LET tree == MObjectTree(mobject)
        names == MObjectNames(mobject)
        of(name) == CHOOSE m \in tree : MObjectName(m) = name
    IN  [n EXCEPT
            !.attrs = [a \in DOMAIN n.attrs \cup names |->
                          IF a \in names THEN of(a) ELSE n.attrs[a]],
            !.plugs = [a \in DOMAIN n.plugs \cup names |->
                          IF a \in names
                          THEN [value |-> MObjectDefault(of(a)),
                                isLocked |-> FALSE]
                          ELSE n.plugs[a]]]

\* The node once an attribute object and its children are removed from it.
NodeRemove(n, mobject) ==
    LET names == MObjectNames(mobject)
    IN  [n EXCEPT !.attrs = [a \in DOMAIN n.attrs \ names |-> n.attrs[a]],
                  !.plugs = [a \in DOMAIN n.plugs \ names |-> n.plugs[a]]]

\* An operation recorded on a modifier; batch is the doIt call that executed
\* it (0 while it is pending), old the plug value it replaced.
Operation(op, mobject, plug, value) ==
    [op |-> op, mobject |-> mobject, plug |-> plug, value |-> value,
     old |-> None, batch |-> 0]

\* OpenMaya.MDGModifier()
MDGModifier == [ops |-> <<>>, done |-> 0, doIts |-> 0]

\* modifier.addAttribute(node.object(), mobject)
addAttribute(m, mobject) ==
    [m EXCEPT !.ops = Append(@, Operation("addAttribute", mobject, "", None))]

\* modifier.newPlugValue(plug, value)
newPlugValue(m, plug, value) ==
    [m EXCEPT !.ops = Append(@, Operation("newPlugValue", None, plug, value))]

\* The operations from the i-th on, executed in order by the doIt call
\* numbered batch.
RECURSIVE DoOperations(_, _, _, _)
DoOperations(n, ops, i, batch) ==
    IF i > Len(ops) THEN [node |-> n, ops |-> ops]
    ELSE LET o == ops[i]
         IN  IF o.op = "addAttribute"
             THEN DoOperations(NodeAdd(n, o.mobject),
                               [ops EXCEPT ![i].batch = batch], i + 1, batch)
             ELSE DoOperations(
                      [n EXCEPT !.plugs[o.plug].value = o.value],
                      [ops EXCEPT ![i].batch = batch,
                                  ![i].old = n.plugs[o.plug].value],
                      i + 1, batch)

\* modifier.doIt(): executes the operations recorded since the last doIt.
doIt(n, m) ==
    LET r == DoOperations(n, m.ops, m.done + 1, m.doIts + 1)
    IN  [node |-> r.node,
         modifier |-> [ops |-> r.ops, done |-> Len(r.ops),
                       doIts |-> m.doIts + 1]]

\* The executed operations from the i-th down to the first, undone.
RECURSIVE UndoOperations(_, _, _)
UndoOperations(n, ops, i) ==
    IF i = 0 THEN n
    ELSE LET o == ops[i]
         IN  IF o.op = "addAttribute"
             THEN UndoOperations(NodeRemove(n, o.mobject), ops, i - 1)
             ELSE UndoOperations([n EXCEPT !.plugs[o.plug].value = o.old],
                                 ops, i - 1)

\* modifier.undoIt(): undoes every operation the modifier has executed.
undoIt(n, m) ==
    [node |-> UndoOperations(n, m.ops, m.done),
     modifier |-> [m EXCEPT !.done = 0]]

----------------------------------------------------------------------------
(* add_attribute (create.py). *)

\* getattr(current, "locked", False)
Locked(current) ==
    IF "locked" \in DOMAIN current THEN current.locked ELSE FALSE

\* The loop over the stack: each plug's isLocked is written directly, the
\* descriptor's children are pushed.
RECURSIVE SetPlugLocks(_, _)
SetPlugLocks(n, stack) ==
    IF stack = <<>> THEN n
    ELSE LET current == stack[Len(stack)]
             rest == SubSeq(stack, 1, Len(stack) - 1)
         IN  SetPlugLocks(
                 [n EXCEPT !.plugs[current.name].isLocked = Locked(current)],
                 rest \o ChildrenOf(current))

\* The attribute put on the node by the host directly, not by the modifier.
AddAndDoDirect(n, m, attribute) ==
    [node |-> NodeAdd(n, create_mobject(attribute)), modifier |-> m]

\* modifier.addAttribute(node.object(), create_mobject(attribute))
\* modifier.doIt()
AddAndDo(n, m, attribute) ==
    doIt(n, addAttribute(m, create_mobject(attribute)))

\* The matrix default recorded and left pending: no second doIt.
SetMatrixDefaultPending(n, m, attribute) ==
    [node |-> n,
     modifier |-> newPlugValue(m, attribute.name, MatrixPropertyGet(attribute))]

\* value = MFnMatrixData().create(attribute.default)
\* modifier.newPlugValue(plug, value); modifier.doIt()
SetMatrixDefault(n, m, attribute) ==
    doIt(n, newPlugValue(m, attribute.name, MatrixPropertyGet(attribute)))

LockedNodeError == Exc("LockedNodeError", <<>>)

\* add_attribute without the isLocked check.
add_attributeUnchecked(n, attribute, m) ==
    LET added == AddAndDo(n, m, attribute)
        unlocked == SetPlugLocks(added.node, <<attribute>>)
        r == IF attribute.cls \in MatrixClasses
             THEN SetMatrixDefault(unlocked, added.modifier, attribute)
             ELSE [node |-> unlocked, modifier |-> added.modifier]
    IN  [exc |-> NoExc, node |-> r.node, modifier |-> r.modifier,
         plug |-> attribute.name]

\* add_attribute(node, attribute, modifier)
add_attribute(n, attribute, m) ==
    IF n.isLocked
    THEN [exc |-> LockedNodeError, node |-> n, modifier |-> m, plug |-> ""]
    ELSE LET added == AddAndDo(n, m, attribute)
             unlocked == SetPlugLocks(added.node, <<attribute>>)
             r == IF attribute.cls \in MatrixClasses
                  THEN SetMatrixDefault(unlocked, added.modifier, attribute)
                  ELSE [node |-> unlocked, modifier |-> added.modifier]
         IN  [exc |-> NoExc, node |-> r.node, modifier |-> r.modifier,
              plug |-> attribute.name]

----------------------------------------------------------------------------
(* The values the environment assigns. *)

\* A negative fractional number, a string, and that number of radians and
\* of meters.
Numbers == {Float(-3, 2, 0)}

Values ==
    {None, Str("x"), MAngle(Float(-3, 2, 0), kRadians),
     MDistance(Float(-3, 2, 0), kMeters)} \cup Numbers

\* The values assigned to the properties of a compound.
CompoundValues == Values \ {MDistance(Float(-3, 2, 0), kMeters)}

\* The properties the environment assigns to: the five are instances of one
\* descriptor class, each storing under its own name.
UsedProps == {"default", "min"}

\* The units a caller may give an attribute of class cls.
UnitsOf(cls) ==
    CASE DEFAULT_UNIT(cls) = kDegrees -> AngleUnits
      [] DEFAULT_UNIT(cls) = kCentimeters -> DistanceUnits
      [] OTHER -> {}

\* All tuples of length n over S.
Tuples(n, S) == [1..n -> S]

Done(op, exc, info) == [op |-> op, exc |-> exc, info |-> info]

NoInfo == [name |-> "", failed |-> 0, touched |-> FALSE]

----------------------------------------------------------------------------
(* Numeric compounds: construction and assignment. *)

\* How many of the children, from the first, have their unit reassigned
\* between assignments to the compound.
MaxUnitChild == 1

CompoundClasses == {"Angle2", "Long2", "Double2"}

InitCompound ==
    /\ \E cls \in CompoundClasses, unit \in {NoUnit} :
          comp = NumericCompoundAttributeInit(cls, "foo", NoArgs, unit, NoKwargs).obj
    /\ num = None
    /\ enum = None
    /\ assigned = None
    /\ attr = None
    /\ mat = None
    /\ desc = None
    /\ native = None
    /\ given = None
    /\ heap = None
    /\ node = None
    /\ modifier = None
    /\ last = Done("init", NoExc, NoInfo)

\* compound.<p> = value
CompoundSet(p, value) ==
    \* last.info.value is the tuple of an assignment that succeeded
    LET r == NumericCompoundPropertySet(comp, p, value)
        \* whether the loop had given some child a new value before it failed
        touched == \E i \in 1..(r.failed - 1) :
                      Coerce(comp.children[i], value[i]).val # comp.children[i][p]
    IN  /\ comp' = r.obj
        /\ last' = Done("compound_set", r.exc,
                        [name |-> p, failed |-> r.failed, touched |-> touched,
                         value |-> IF Raised(r) THEN None ELSE value])
        /\ UNCHANGED <<num, enum, assigned, attr, mat, node, modifier,
                 desc, native, given, heap>>

\* compound.children[i].<p> = value
ChildSet(i, p, value) ==
    LET r == NumericPropertySet(comp.children[i], p, value)
    IN  /\ comp' = [comp EXCEPT !.children[i] = r.obj]
        /\ last' = Done("child_set", r.exc, NoInfo)
        /\ UNCHANGED <<num, enum, assigned, attr, mat, node, modifier,
                 desc, native, given, heap>>

\* compound.children[i].unit = unit
ChildSetUnit(i, unit) ==
    /\ comp' = [comp EXCEPT !.children[i].unit = unit]
    /\ last' = Done("child_set_unit", NoExc, NoInfo)
    /\ UNCHANGED <<num, enum, assigned, attr, mat, node, modifier,
                 desc, native, given, heap>>

\* compound.children[i].<p> = compound.children[i].<p>
ChildReassign(i, p) ==
    LET r == NumericPropertySet(comp.children[i], p,
                                NumericPropertyGet(comp.children[i], p))
    IN  /\ comp' = [comp EXCEPT !.children[i] = r.obj]
        /\ last' = Done("child_reassign", r.exc, [name |-> p, child |-> i])
        /\ UNCHANGED <<num, enum, assigned, attr, mat, node, modifier,
                       desc, native, given, heap>>

\* compound.<p> = compound.<p>
CompoundReassign(p) ==
    LET r == NumericCompoundPropertySet(comp, p,
                                        NumericCompoundPropertyGet(comp, p))
    IN  /\ comp' = r.obj
        /\ last' = Done("compound_reassign", r.exc, [name |-> p, child |-> 0])
        /\ UNCHANGED <<num, enum, assigned, attr, mat, node, modifier,
                       desc, native, given, heap>>

NextCompound ==
    \/ \E p \in UsedProps :
          \E value \in {None} \cup Tuples(Len(comp.children), CompoundValues) :
             CompoundSet(p, value)
    \/ \E i \in 1..Len(comp.children), p \in UsedProps, value \in CompoundValues :
          ChildSet(i, p, value)
    \/ \E i \in 1..Min(Len(comp.children), MaxUnitChild),
          unit \in UnitsOf(comp.cls) :
          ChildSetUnit(i, unit)

SpecCompound == InitCompound /\ [][NextCompound]_vars

\* Assignments to the children, of new values and of the values read, and
\* re-assignments of the tuple read from the compound.
NextReassign ==
    \/ \E i \in 1..Len(comp.children), p \in UsedProps, value \in CompoundValues :
          ChildSet(i, p, value)
    \/ \E i \in 1..Len(comp.children), unit \in UnitsOf(comp.cls) :
          ChildSetUnit(i, unit)
    \/ \E i \in 1..Len(comp.children), p \in UsedProps : ChildReassign(i, p)
    \/ \E p \in UsedProps : CompoundReassign(p)

SpecReassign == InitCompound /\ [][NextReassign]_vars

----------------------------------------------------------------------------
(* C1: rollback of a failed assignment to a numeric-compound property. *)

CompoundSetFailed(l) == l.op = "compound_set" /\ Raised(l)

\* C1 as stated: when the assignment to the k-th child raises, every child
\* holds for that property exactly the value it held before the assignment.
C1_RollbackExact ==
    [][CompoundSetFailed(last') =>
          \A i \in 1..Len(comp.children) :
             comp'.children[i][last'.info.name] = comp.children[i][last'.info.name]]_vars

\* C1 (amended): when the assignment to the k-th child raises, the exception
\* propagates; children k.. are not modified; each child before k holds for
\* that property exactly its saved value when that value is in the child's
\* unit, and otherwise (the child's unit was reassigned after the value was
\* stored) the same quantity expressed in the child's current unit.  No
\* other property and no unit changes.
C1_Rollback ==
    [][CompoundSetFailed(last') =>
          LET k == last'.info.failed
              p == last'.info.name
          IN  /\ k \in 1..Len(comp.children)
              /\ Len(comp'.children) = Len(comp.children)
              /\ \A i \in k..Len(comp.children) :
                    comp'.children[i] = comp.children[i]
              /\ \A i \in 1..(k - 1) :
                    LET old == comp.children[i][p]
                        new == comp'.children[i][p]
                    IN  /\ IF IsUnitValue(old) /\ old.unit # comp.children[i].unit
                           THEN /\ new.t = old.t
                                /\ new.unit = comp.children[i].unit
                                /\ Quantity(new) = Quantity(old)
                           ELSE new = old
                        /\ comp'.children[i] = [comp.children[i] EXCEPT ![p] = new]]_vars

\* A failed assignment whose loop had already given an earlier child a new
\* value, so that the revert loop had something to restore.
C1_Witness ==
    /\ CompoundSetFailed(last)
    /\ last.info.failed >= 2
    /\ last.info.touched

\* C13: reading property p of a numeric compound gives the tuple of its
\* children's p in child order; after a successful assignment of a tuple
\* with one element per child, child i's p is the i-th element as the
\* child's setter coerces it, and that tuple is what the compound reads.
C13_ReadBack ==
    /\ comp # None =>
          \A p \in PropSet :
             LET read == NumericCompoundPropertyGet(comp, p)
             IN  /\ Len(read) = Len(comp.children)
                 /\ \A i \in 1..Len(read) : read[i] = comp.children[i][p]
    /\ (last.op = "compound_set" /\ ~Raised(last) /\ last.info.value # None) =>
          LET p == last.info.name
              value == last.info.value
              read == NumericCompoundPropertyGet(comp, p)
          IN  /\ Len(value) = Len(comp.children)
              /\ \A i \in 1..Len(value) :
                    /\ comp.children[i][p] = Coerce(comp.children[i], value[i]).val
                    /\ read[i] = Coerce(comp.children[i], value[i]).val
                    /\ (/\ value[i].t = NUMERIC_CLS(comp.children[i].cls)
                        /\ IsUnitValue(value[i]) =>
                              value[i].unit = comp.children[i].unit)
                          => read[i] = value[i]

\* A tuple of two different elements, one of them converted by the child's
\* setter, was assigned with success.
C13_Witness ==
    /\ last.op = "compound_set"
    /\ ~Raised(last)
    /\ last.info.value # None
    /\ last.info.value[1] # last.info.value[2]
    /\ NumericCompoundPropertyGet(comp, last.info.name)[1] # last.info.value[1]
    /\ NumericCompoundPropertyGet(comp, last.info.name)[2] # None

----------------------------------------------------------------------------
(* Numeric attributes: construction and assignment. *)

NumericClasses == {"Double", "Float", "Long", "Short", "Angle", "Distance"}

ValueInfo(p, value) == [name |-> p, value |-> value]

InitNumeric ==
    /\ \E cls \in NumericClasses :
          \E unit \in {NoUnit} \cup UnitsOf(cls) :
             /\ num = NumericAttributeInit(cls, "foo", NoArgs, unit,
                                           NoKwargs).obj
             /\ given = [unit |-> unit, reassigned |-> FALSE]
             /\ heap = None
    /\ comp = None
    /\ enum = None
    /\ assigned = None
    /\ attr = None
    /\ mat = None
    /\ desc = None
    /\ native = None
    /\ node = None
    /\ modifier = None
    /\ last = Done("init", NoExc, NoInfo)

\* attribute.<p> = value
NumericSet(p, value) ==
    LET r == NumericPropertySet(num, p, value)
    IN  /\ num' = r.obj
        /\ last' = Done("numeric_set", r.exc, ValueInfo(p, value))
        /\ UNCHANGED <<comp, enum, assigned, attr, mat, node, modifier,
                 desc, native, given, heap>>

\* attribute.unit = unit
NumericSetUnit(unit) ==
    /\ num' = [num EXCEPT !.unit = unit]
    /\ given' = [given EXCEPT !.reassigned = TRUE]
    /\ last' = Done("numeric_set_unit", NoExc, NoInfo)
    /\ UNCHANGED <<comp, enum, assigned, attr, mat, node, modifier,
                 desc, native, heap>>

NextNumeric ==
    \/ \E p \in UsedProps, value \in Values : NumericSet(p, value)
    \/ \E unit \in UnitsOf(num.cls) : NumericSetUnit(unit)

SpecNumeric == InitNumeric /\ [][NextNumeric]_vars

----------------------------------------------------------------------------
(* C5: what an assignment to a property of a unit-typed attribute stores. *)

UnitClasses == {"Angle", "Distance"}

NumericSetDone(l) == l.op = "numeric_set" /\ ~Raised(l)

\* C5: on an attribute whose NUMERIC_CLS is a unit type, a plain number x is
\* stored as NUMERIC_CLS(x, unit); a unit value in another unit is stored in
\* the attribute's unit and denotes the same quantity; a unit value in the
\* attribute's unit is stored unchanged.
C5_UnitConversion ==
    [][(NumericSetDone(last') /\ num.cls \in UnitClasses) =>
          LET value == last'.info.value
              stored == num'[last'.info.name]
          IN  /\ IsNumber(value) =>
                    stored = [t |-> NUMERIC_CLS(num.cls), value |-> AsFloat(value),
                              unit |-> num.unit]
              /\ (IsUnitValue(value) /\ value.unit # num.unit) =>
                    /\ stored.t = value.t
                    /\ stored.unit = num.unit
                    /\ Quantity(stored) = Quantity(value)
              /\ (IsUnitValue(value) /\ value.unit = num.unit) =>
                    stored = value
              /\ num' = [num EXCEPT ![last'.info.name] = stored]]_vars

\* A unit value was assigned to an attribute of another unit and was stored
\* with a different magnitude.
C5_Witness ==
    /\ NumericSetDone(last)
    /\ num.cls \in UnitClasses
    /\ IsUnitValue(last.info.value)
    /\ last.info.value.unit # num.unit
    /\ num[last.info.name].value # last.info.value.value

\* C20: while the unit of a NumericAttribute is not reassigned, each of its
\* five stored values is None or an instance of NUMERIC_CLS (a float for
\* Double and Float; an int for Long and Short, a fractional number being
\* truncated toward zero), and a stored MAngle or MDistance is in the
\* attribute's unit, which is the constructor's unit argument when one was
\* given and DEFAULT_UNIT otherwise.
C20_StoredValues ==
    (num # None /\ ~given.reassigned) =>
       /\ num.unit = IF given.unit # NoUnit THEN given.unit
                     ELSE DEFAULT_UNIT(num.cls)
       /\ \A p \in PropSet :
             \/ num[p] = None
             \/ /\ num[p].t = NUMERIC_CLS(num.cls)
                /\ num.cls \in UnitClasses => num[p].unit = num.unit
       /\ (/\ last.op = "numeric_set"
           /\ ~Raised(last)
           /\ num.cls \in {"Long", "Short"}
           /\ last.info.value.t = "float") =>
             LET v == last.info.value
                 k == num[last.info.name].n
             IN  /\ v.k = 0
                 /\ Abs(k) * v.d <= Abs(v.n)
                 /\ Abs(v.n) < (Abs(k) + 1) * v.d
                 /\ k * v.n >= 0

\* A fractional negative number was assigned to an int attribute whose unit
\* was never reassigned, and is stored truncated toward zero.
C20_Witness ==
    /\ ~given.reassigned
    /\ last.op = "numeric_set"
    /\ ~Raised(last)
    /\ num.cls = "Long"
    /\ last.info.value = Float(-3, 2, 0)
    /\ num[last.info.name] = PyInt(-1)

----------------------------------------------------------------------------
(* Enum: construction and assignment of the default index. *)

FieldNames == {"bar", "baz"}

Lists == UNION {[1..n -> FieldNames] : n \in 0..MaxLen}

\* The name a dict gives its key k.
DictName(k) == IF k % 2 = 0 THEN "bar" ELSE "baz"

Dicts == {[k \in K |-> DictName(k)] : K \in SUBSET (0..MaxKey)}

FieldArgs == {None} \cup {FieldList(l) : l \in Lists} \cup {FieldDict(d) : d \in Dicts}

Indexes == {PyInt(i) : i \in 0..(MaxKey + 1)}

InitEnum ==
    /\ enum = EnumInit("foo", None, None, NoKwargs).obj
    /\ assigned = None
    /\ num = None
    /\ comp = None
    /\ attr = None
    /\ mat = None
    /\ desc = None
    /\ native = None
    /\ given = None
    /\ heap = None
    /\ node = None
    /\ modifier = None
    /\ last = Done("init", NoExc, NoInfo)

\* enum = Enum("foo", fields=fields, default=default); a constructor that
\* raises binds no new object.
EnumNew(fields, default) ==
    LET r == EnumInit("foo", fields, default, NoKwargs)
    IN  /\ enum' = IF Raised(r) THEN enum ELSE r.obj
        /\ assigned' = IF Raised(r) THEN assigned ELSE default
        /\ last' = Done("enum_new", r.exc, [fields |-> fields, default |-> default])
        /\ UNCHANGED <<num, comp, attr, mat, node, modifier, desc, native, given, heap>>

\* enum.default = value
EnumSetDefault(value) ==
    LET r == EnumDefaultSet(enum, value)
    IN  /\ enum' = r.obj
        /\ assigned' = IF Raised(r) THEN assigned ELSE value
        /\ last' = Done("enum_set_default", r.exc, [value |-> value])
        /\ UNCHANGED <<num, comp, attr, mat, node, modifier, desc, native, given, heap>>

NextEnum ==
    \/ \E fields \in FieldArgs, default \in {None} \cup Indexes :
          EnumNew(fields, default)
    \/ \E value \in Indexes : EnumSetDefault(value)

SpecEnum == InitEnum /\ [][NextEnum]_vars

----------------------------------------------------------------------------
(* C6, C7, C8: the default index and the fields of an Enum. *)

\* C6: Enum.default reads as the index last assigned with success, if any;
\* otherwise as the smallest key of fields when there is one; otherwise 0.
C6_EnumDefault ==
    LET d == EnumDefaultGet(enum)
        keys == DOMAIN EnumFields(enum)
    IN  /\ assigned # None => d = assigned
        /\ (assigned = None /\ keys # {}) =>
              /\ d.t = "int"
              /\ d.n \in keys
              /\ \A j \in keys : d.n <= j
        /\ (assigned = None /\ keys = {}) => d = PyInt(0)

\* No index was assigned, and the smallest key is not 0.
C6_Witness ==
    /\ assigned = None
    /\ DOMAIN EnumFields(enum) # {}
    /\ EnumDefaultGet(enum).n > 0

\* The keys the fields argument of the constructor gives.
KeysOf(fields) ==
    CASE fields.t = "list" -> {i - 1 : i \in 1..Len(fields.items)}
      [] fields.t = "dict" -> DOMAIN fields.items
      [] OTHER -> {}

\* C7: assigning to Enum.default, in the constructor or afterwards, an index
\* that is no key of fields raises ValueError("Invalid index `i`") and leaves
\* the default as it read before; default=None in the constructor assigns
\* nothing and raises nothing.
C7_InvalidIndex ==
    [][/\ (last'.op = "enum_set_default"
             /\ last'.info.value.n \notin DOMAIN EnumFields(enum)) =>
             /\ last'.exc = Exc("ValueError", <<"Invalid index", last'.info.value.n>>)
             /\ EnumDefaultGet(enum') = EnumDefaultGet(enum)
             /\ enum' = enum
       /\ (last'.op = "enum_new" /\ last'.info.default # None
             /\ last'.info.default.n \notin KeysOf(last'.info.fields)) =>
             /\ last'.exc = Exc("ValueError", <<"Invalid index", last'.info.default.n>>)
             /\ enum' = enum
       /\ (last'.op = "enum_new" /\ last'.info.default = None) =>
             /\ ~Raised(last')
             /\ enum'._default = None]_vars

\* An assignment after construction raised while an assigned default stood.
C7_Witness ==
    /\ last.op = "enum_set_default"
    /\ Raised(last)
    /\ assigned # None
    /\ EnumDefaultGet(enum) = assigned

\* C8: a list of n names becomes {0: names[0], ..., n-1: names[n-1]}, a dict
\* is copied key for key, no fields give the empty mapping; the fields never
\* change after construction.
C8_Fields ==
    [][/\ (last'.op = "enum_new" /\ ~Raised(last')) =>
             LET fields == last'.info.fields
                 got == EnumFields(enum')
             IN  /\ DOMAIN got = KeysOf(fields)
                 /\ fields.t = "list" =>
                       \A i \in 1..Len(fields.items) : got[i - 1] = fields.items[i]
                 /\ fields.t = "dict" =>
                       \A k \in DOMAIN fields.items : got[k] = fields.items[k]
       /\ last'.op # "enum_new" => EnumFields(enum') = EnumFields(enum)]_vars

\* An Enum was built from a list of two different names.
C8_Witness ==
    /\ last.op = "enum_new"
    /\ ~Raised(last)
    /\ last.info.fields.t = "list"
    /\ Len(last.info.fields.items) = 2
    /\ last.info.fields.items[1] # last.info.fields.items[2]
    /\ EnumFields(enum)[1] = last.info.fields.items[2]

----------------------------------------------------------------------------
(* Attribute: construction with keyword arguments. *)

\* The keys of AttributeKwargs.
BoolFlags ==
    {"affects_appearence", "affects_world_space", "cached", "channel_box",
     "connectable", "hidden", "indeterminant", "index_matters", "internal",
     "keyable", "readable", "render_source", "storable", "writable"}

KwargKeys == BoolFlags \cup {"short_name", "disconnect_behavior"}

\* Keyword arguments for the keys K: the flags of T set, the others cleared.
Kwargs(K, T, d) ==
    [k \in K |-> IF k = "short_name" THEN Str("f")
                 ELSE IF k = "disconnect_behavior" THEN d
                 ELSE k \in T]

InitAttribute ==
    /\ attr = None
    /\ mat = None
    /\ desc = None
    /\ native = None
    /\ given = None
    /\ heap = None
    /\ node = None
    /\ modifier = None
    /\ num = None
    /\ comp = None
    /\ enum = None
    /\ assigned = None
    /\ last = Done("init", NoExc, NoInfo)

\* attr = Attribute("foo", **kwargs).  The constructor reads nothing of an
\* earlier object, so one call from the initial state covers every call.
AttributeNew(kwargs) ==
    /\ last.op = "init"
    /\ attr' = AttributeInit("foo", kwargs)
    /\ last' = Done("attribute_new", NoExc, [kwargs |-> kwargs])
    /\ UNCHANGED <<num, comp, enum, assigned, mat, node, modifier,
                 desc, native, given, heap>>

NextAttribute ==
    \E K \in SUBSET KwargKeys :
       /\ Cardinality(K) <= MaxKwargs
       /\ \E T \in SUBSET (K \cap BoolFlags) :
             \E d \in IF "disconnect_behavior" \in K
                      THEN {kDelete, kReset, kNothing} ELSE {kNothing} :
                AttributeNew(Kwargs(K, T, d))

SpecAttribute == InitAttribute /\ [][NextAttribute]_vars

\* C9: an Attribute built with only a name has the documented defaults; a
\* flag passed by keyword is stored as given and changes no other flag.
C9_AttributeDefaults ==
    last.op = "attribute_new" =>
       LET kw == last.info.kwargs
           Given(k) == k \in DOMAIN kw
       IN  /\ DOMAIN attr = KwargKeys \cup {"name"}
           /\ attr.name = "foo"
           /\ \A k \in {"affects_appearence", "affects_world_space",
                        "channel_box", "hidden", "indeterminant", "internal",
                        "keyable", "render_source"} :
                 attr[k] = IF Given(k) THEN kw[k] ELSE FALSE
           /\ \A k \in {"cached", "connectable", "index_matters", "readable",
                        "storable", "writable"} :
                 attr[k] = IF Given(k) THEN kw[k] ELSE TRUE
           /\ attr.disconnect_behavior =
                 IF Given("disconnect_behavior") THEN kw.disconnect_behavior ELSE 2
           /\ attr.short_name =
                 IF Given("short_name") THEN kw.short_name ELSE None

\* An Attribute built with one flag set by keyword against its default.
C9_Witness ==
    /\ last.op = "attribute_new"
    /\ DOMAIN last.info.kwargs = {"keyable"}
    /\ attr.keyable
    /\ ~attr.channel_box
    /\ attr.storable

----------------------------------------------------------------------------
(* Matrix descriptors: construction and assignment of `default`. *)

\* The matrix of tests/test_attributes.py, with a on the diagonal.
TestMatrix(a) == <<a, 2, 2, 0,  2, a, 2, 0,  2, 2, a, 0,  2, 2, 2, 1>>

\* What a caller passes as a matrix default: nothing (None), a number, a
\* list too short, and each test matrix as a list of 16 numbers, as an
\* MMatrix and as an MTransformationMatrix.
MatrixInputs ==
    {None, PyInt(1)}
    \cup {PyList(SubSeq(TestMatrix(1), 1, k)) : k \in 0..MaxLen}
    \cup UNION {{PyList(TestMatrix(a)), MMatrix(TestMatrix(a)),
                 MTransformationMatrix(TestMatrix(a))} : a \in 1..MaxEntry}

InitMatrix ==
    /\ mat = None
    /\ desc = None
    /\ native = None
    /\ given = None
    /\ heap = None
    /\ num = None
    /\ comp = None
    /\ enum = None
    /\ assigned = None
    /\ attr = None
    /\ node = None
    /\ modifier = None
    /\ last = Done("init", NoExc, NoInfo)

\* mat = DoubleMatrix("foo", default) or FloatMatrix("foo", default); a
\* constructor that raises leaves the variable as it was.
MatrixNew(cls, default) ==
    LET r == MatrixInit(cls, "foo", default, NoKwargs)
    IN  /\ mat' = IF Raised(r) THEN mat ELSE r.obj
        /\ last' = Done("matrix_new", r.exc, [cls |-> cls, value |-> default])
        /\ UNCHANGED <<num, comp, enum, assigned, attr, node, modifier,
                 desc, native, given, heap>>

\* mat.default = value
MatrixSet(value) ==
    /\ mat # None
    /\ LET r == MatrixPropertySet(mat, value)
       IN  /\ mat' = r.obj
           /\ last' = Done("matrix_set", r.exc,
                           [cls |-> mat.cls, value |-> value])
    /\ UNCHANGED <<num, comp, enum, assigned, attr, node, modifier,
                 desc, native, given, heap>>

NextMatrix ==
    \/ \E cls \in MatrixClasses, default \in MatrixInputs :
          MatrixNew(cls, default)
    \/ \E value \in MatrixInputs : MatrixSet(value)

SpecMatrix == InitMatrix /\ [][NextMatrix]_vars

\* C10: a DoubleMatrix or FloatMatrix constructed without a default (None,
\* the parameter's declared default) is constructed, and its default reads
\* as the identity matrix.
C10_DefaultIdentity ==
    (last.op = "matrix_new" /\ last.info.value = None) =>
       /\ ~Raised(last)
       /\ mat # None
       /\ mat.cls = last.info.cls
       /\ MatrixPropertyGet(mat) = kIdentity

\* What the constructors do without a default: they assign None to the
\* property, whose setter raises TypeError, and no descriptor is built.
C10_NoneRaises ==
    [][(last'.op = "matrix_new" /\ last'.info.value = None) =>
          /\ last'.exc.type = "TypeError"
          /\ mat' = mat]_vars

\* A matrix descriptor's construction without a default has raised.
C10_Witness ==
    /\ last.op = "matrix_new"
    /\ last.info.value = None
    /\ Raised(last)

\* The entries of a matrix given as 16 numbers, an MMatrix or an
\* MTransformationMatrix.
Entries(value) == IF value.t = "list" THEN value.items ELSE value.m

IsMatrixValue(value) ==
    \/ value.t \in {"MMatrix", "MTransformationMatrix"}
    \/ value.t = "list" /\ Len(value.items) = 16

\* C11: assigning a sequence of 16 numbers, an MMatrix or an
\* MTransformationMatrix to a matrix property succeeds and stores an MMatrix
\* with the entries of the given matrix; reading the property afterwards
\* returns that matrix.
C11_MatrixStored ==
    (last.op \in {"matrix_new", "matrix_set"} /\ IsMatrixValue(last.info.value))
       => /\ ~Raised(last)
          /\ MatrixPropertyGet(mat).t = "MMatrix"
          /\ MatrixPropertyGet(mat) = MMatrix(Entries(last.info.value))

\* An MTransformationMatrix was assigned over another stored matrix.
C11_Witness ==
    /\ last.op = "matrix_set"
    /\ last.info.value = MTransformationMatrix(TestMatrix(2))
    /\ MatrixPropertyGet(mat) = MMatrix(TestMatrix(2))

\* C12: assigning a value that is neither a sequence, an MMatrix nor an
\* MTransformationMatrix raises TypeError; assigning a sequence whose length
\* is not 16 raises ValueError "Expected 16 floats, got n"; either way the
\* matrix stored before is unchanged.
C12_MatrixRejected ==
    [][(last'.op = "matrix_set" /\ ~IsMatrixValue(last'.info.value)) =>
          LET value == last'.info.value
          IN  /\ mat' = mat
              /\ MatrixPropertyGet(mat') = MatrixPropertyGet(mat)
              /\ IF value.t = "list"
                 THEN last'.exc = Exc("ValueError",
                                      <<"Expected 16 floats, got",
                                        Len(value.items)>>)
                 ELSE last'.exc.type = "TypeError"]_vars

\* A list of one number was refused by a descriptor whose stored matrix is
\* not the identity.
C12_Witness ==
    /\ last.op = "matrix_set"
    /\ last.info.value = PyList(<<1>>)
    /\ last.exc.type = "ValueError"
    /\ MatrixPropertyGet(mat) = MMatrix(TestMatrix(2))

----------------------------------------------------------------------------
(* A node, a modifier and add_attribute. *)

Names == {"foo", "bar"}

\* The descriptors a caller adds under a name: one of each kind.
Catalogue(name) ==
    {MessageInit(name, NoKwargs),
     CurveInit(name, NoKwargs),
     BoolInit(name, PyBool(TRUE), [keyable |-> TRUE]),
     StringInit(name, "foobar", TRUE, NoKwargs),
     MatrixInit("DoubleMatrix", name, MMatrix(TestMatrix(2)), NoKwargs).obj,
     MatrixInit("FloatMatrix", name, MTransformationMatrix(TestMatrix(3)),
                [short_name |-> Str("m")]).obj,
     EnumInit(name, FieldList(<<"bar", "baz">>), PyInt(1), NoKwargs).obj,
     NumericAttributeInit("Double", name,
                          [NoArgs EXCEPT !.default = Float(-3, 2, 0),
                                         !.min = PyInt(-2)],
                          NoUnit, NoKwargs).obj,
     NumericAttributeInit("Angle", name,
                          [NoArgs EXCEPT !.default = Float(-3, 2, 0)],
                          kRadians, NoKwargs).obj,
     NumericCompoundAttributeInit("Color", name, NoArgs, NoUnit, NoKwargs).obj,
     CompoundInit(name,
                  <<MatrixInit("DoubleMatrix", name \o "Matrix",
                               MMatrix(TestMatrix(1)), NoKwargs).obj,
                    NumericCompoundAttributeInit("Long2", name \o "Pair",
                                                 NoArgs, NoUnit, NoKwargs).obj>>,
                  NoKwargs)}

\* The names of a descriptor and of the descriptors under it.
RECURSIVE AttributeNames(_)
AttributeNames(attribute) ==
    {attribute.name}
    \cup UNION {AttributeNames(c) : c \in Range(ChildrenOf(attribute))}

\* The names of the attributes the modifier would add at its next doIt.
PendingNames(m) ==
    UNION {MObjectNames(m.ops[i].mobject) :
              i \in {j \in (m.done + 1)..Len(m.ops) :
                        m.ops[j].op = "addAttribute"}}

NodeInfo(attribute) ==
    [attribute |-> attribute, node |-> node, modifier |-> modifier]

InitNode ==
    /\ node = [isLocked |-> FALSE, attrs |-> <<>>, plugs |-> <<>>]
    /\ modifier = MDGModifier
    /\ num = None
    /\ comp = None
    /\ enum = None
    /\ assigned = None
    /\ attr = None
    /\ mat = None
    /\ desc = None
    /\ native = None
    /\ given = None
    /\ heap = None
    /\ last = Done("init", NoExc, NodeInfo(None))

\* add_attribute(node, attribute, modifier).  On an unlocked node the names
\* are new to it: the host refuses an attribute whose name the node has.
AddAttribute(attribute) ==
    /\ \/ node.isLocked
       \/ AttributeNames(attribute)
             \cap (DOMAIN node.attrs \cup PendingNames(modifier)) = {}
    /\ LET r == add_attribute(node, attribute, modifier)
       IN  /\ node' = r.node
           /\ modifier' = r.modifier
           /\ last' = Done("add_attribute", r.exc, NodeInfo(attribute))
    /\ UNCHANGED <<num, comp, enum, assigned, attr, mat, desc, native, given, heap>>

\* The caller locks or unlocks the node.
SetLocked(b) ==
    /\ node.isLocked # b
    /\ node' = [node EXCEPT !.isLocked = b]
    /\ last' = Done("set_locked", NoExc, NodeInfo(None))
    /\ UNCHANGED <<modifier, num, comp, enum, assigned, attr, mat,
                 desc, native, given, heap>>

\* modifier.undoIt(), called by the caller after a doIt.
UndoIt ==
    /\ modifier.done > 0
    /\ LET r == undoIt(node, modifier)
       IN  /\ node' = r.node
           /\ modifier' = r.modifier
    /\ last' = Done("undoIt", NoExc, NodeInfo(None))
    /\ UNCHANGED <<num, comp, enum, assigned, attr, mat, desc, native, given, heap>>

\* The caller goes on with a new MDGModifier.
NewModifier ==
    /\ modifier # MDGModifier
    /\ modifier' = MDGModifier
    /\ last' = Done("new_modifier", NoExc, NodeInfo(None))
    /\ UNCHANGED <<node, num, comp, enum, assigned, attr, mat,
                 desc, native, given, heap>>

NextNode ==
    \/ \E name \in Names : \E attribute \in Catalogue(name) :
          AddAttribute(attribute)
    \/ \E b \in BOOLEAN : SetLocked(b)
    \/ UndoIt
    \/ NewModifier

SpecNode == InitNode /\ [][NextNode]_vars

\* C2: add_attribute on a locked node raises LockedNodeError with nothing
\* recorded on or executed by the modifier (no addAttribute, no newPlugValue,
\* no doIt) and the node's attributes and plugs unchanged.
C2_LockedNode ==
    [][(last'.op = "add_attribute" /\ node.isLocked) =>
          /\ last'.exc = LockedNodeError
          /\ modifier'.ops = modifier.ops
          /\ modifier'.done = modifier.done
          /\ modifier'.doIts = modifier.doIts
          /\ node' = node]_vars

\* add_attribute was refused on a locked node that has an attribute.
C2_Witness ==
    /\ last.op = "add_attribute"
    /\ last.info.node.isLocked
    /\ last.exc = LockedNodeError
    /\ DOMAIN node.attrs # {}

\* The node as the modifier's operations make it: those not executed before
\* the call, executed in order on the node as it was.
Replayed(n, before, after) ==
    DoOperations(n, after.ops, before.done + 1, 0).node

C4_MatrixSecondStep ==
    [][(last'.op = "add_attribute" /\ ~Raised(last')) =>
          LET a == last'.info.attribute
              k == Len(modifier.ops)
              ops == modifier'.ops
          IN  /\ ops[k + 1].op = "addAttribute"
              /\ ops[k + 1].batch = modifier.doIts + 1
              /\ a.name \in DOMAIN node'.plugs
              /\ IF a.cls \in MatrixClasses
                 THEN /\ Len(ops) = k + 2
                      /\ ops[k + 2].op = "newPlugValue"
                      /\ ops[k + 2].plug = a.name
                      /\ ops[k + 2].batch = modifier.doIts + 2
                      /\ modifier'.doIts = modifier.doIts + 2
                      /\ node'.plugs[a.name].value = MatrixPropertyGet(a)
                 ELSE /\ Len(ops) = k + 1
                      /\ modifier'.doIts = modifier.doIts + 1]_vars

\* A matrix attribute was added whose default is not the identity, and the
\* plug holds it.
C4_Witness ==
    /\ last.op = "add_attribute"
    /\ ~Raised(last)
    /\ last.info.attribute.cls \in MatrixClasses
    /\ node.plugs[last.info.attribute.name].value = MMatrix(TestMatrix(3))
    /\ modifier.doIts >= 2

----------------------------------------------------------------------------
(* Descriptors of every kind, create_mobject and add_attribute on a new    *)
(* node.                                                                   *)

\* The keyword arguments given to the descriptors whose flags are varied:
\* none, each flag alone with either value, a disconnect behavior, a short
\* name (an empty one too).
FlagKwargs ==
    {NoKwargs, [short_name |-> Str("f")], [short_name |-> Str("")]}
    \cup UNION {{Kwargs({k}, T, kNothing) : T \in SUBSET {k}} : k \in BoolFlags}
    \cup {Kwargs({"disconnect_behavior"}, {}, d) : d \in {kDelete, kReset}}

\* The keyword arguments given to the other descriptors.
FewKwargs == {NoKwargs, [short_name |-> Str("f"), hidden |-> TRUE]}

\* The defaults given to a numeric attribute of class cls.
DefaultsOf(cls) ==
    {None, Float(-3, 2, 0)}
    \cup (CASE cls = "Angle" -> {MAngle(Float(-3, 2, 0), kRadians)}
            [] cls = "Distance" -> {MDistance(Float(-3, 2, 0), kMeters)}
            [] OTHER -> {PyInt(2)})

\* The limits given to a numeric attribute: none, a minimum, a soft maximum,
\* all four.
LimitArgs ==
    {NoArgs,
     [NoArgs EXCEPT !.min = Float(-3, 2, 0)],
     [NoArgs EXCEPT !.soft_max = PyInt(2)],
     [NoArgs EXCEPT !.min = PyInt(-2), !.max = PyInt(2),
                    !.soft_min = PyInt(-1), !.soft_max = PyInt(1)]}

\* The tuples given to a property of a numeric compound with n children:
\* every element None (as when nothing is given), every element a number,
\* the first None.
TuplesOf(n) ==
    {[i \in 1..n |-> None],
     [i \in 1..n |-> PyInt(i - 2)],
     [i \in 1..n |-> IF i = 1 THEN None ELSE Float(-3, 2, 0)]}

\* The attributes given to a Compound as children.
Children ==
    {BoolInit("bar", PyBool(TRUE), NoKwargs),
     NumericCompoundAttributeInit(
         "Long2", "baz", [NoArgs EXCEPT !.default = <<PyInt(1), PyInt(2)>>],
         NoUnit, NoKwargs).obj}

\* The classes of numeric compound built here.
CreatedCompoundClasses == {"Angle2", "Long3", "Color", "Double4", "Distance2"}

\* OpenMaya.MFnDependencyNode of a new `network` node.
NetworkNode == [isLocked |-> FALSE, attrs |-> <<>>, plugs |-> <<>>]

\* What the history keeps of a constructor call.
Given(default, children) ==
    [default |-> default, children |-> children, appended |-> 0,
     reassigned |-> FALSE]

InitCreate ==
    /\ desc = None
    /\ native = None
    /\ given = None
    /\ heap = None
    /\ node = None
    /\ modifier = None
    /\ num = None
    /\ comp = None
    /\ enum = None
    /\ assigned = None
    /\ attr = None
    /\ mat = None
    /\ last = Done("init", NoExc, NoInfo)

\* desc = <a descriptor class>("foo", ...): r is what the constructor
\* returned or raised.  A constructor reads nothing of an earlier object,
\* so one call from the initial state covers every call.
DescNew(r, default, children) ==
    /\ desc = None
    /\ ~Raised(r)
    /\ desc' = r.obj
    /\ given' = Given(default, children)
    /\ last' = Done("desc_new", r.exc, NoInfo)
    /\ UNCHANGED <<native, node, modifier, num, comp, enum, assigned, attr,
                   mat, heap>>

Built(obj) == [exc |-> NoExc, obj |-> obj]

\* desc.unit = unit
DescSetUnit(unit) ==
    /\ desc # None
    /\ desc.cls \in AllNumericClasses
    /\ desc.unit # unit
    /\ desc' = [desc EXCEPT !.unit = unit]
    /\ given' = [given EXCEPT !.reassigned = TRUE]
    /\ native' = None
    /\ node' = None
    /\ modifier' = None
    /\ last' = Done("desc_set_unit", NoExc, NoInfo)
    /\ UNCHANGED <<num, comp, enum, assigned, attr, mat, heap>>

\* desc.append(child)
DescAppend(child) ==
    /\ desc # None
    /\ desc.cls = "Compound"
    /\ Len(given.children) < MaxChildren
    /\ desc' = CompoundAppend(desc, child)
    /\ given' = [given EXCEPT !.children = Append(@, child),
                              !.appended = @ + 1]
    /\ native' = None
    /\ node' = None
    /\ modifier' = None
    /\ last' = Done("desc_append", NoExc, NoInfo)
    /\ UNCHANGED <<num, comp, enum, assigned, attr, mat, heap>>

\* native = create_mobject(desc)
CreateMObject ==
    /\ desc # None
    /\ native' = create_mobject(desc)
    /\ last' = Done("create_mobject", NoExc, NoInfo)
    /\ UNCHANGED <<desc, given, node, modifier, num, comp, enum, assigned,
                   attr, mat, heap>>

\* The number of descriptors in the tree of a descriptor.
RECURSIVE AttributeCount(_)
Sum(f) ==
    LET RECURSIVE Upto(_)
        Upto(i) == IF i = 0 THEN 0 ELSE f[i] + Upto(i - 1)
    IN  Upto(Len(f))

AttributeCount(attribute) ==
    1 + Sum([i \in 1..Len(ChildrenOf(attribute)) |->
                AttributeCount(ChildrenOf(attribute)[i])])

\* add_attribute(network_node, desc, MDGModifier()), on a new node as in
\* tests/conftest.py.  The host takes no two attributes of one name.
AddToNetworkNode ==
    /\ desc # None
    /\ Cardinality(AttributeNames(desc)) = AttributeCount(desc)
    /\ LET r == add_attribute(NetworkNode, desc, MDGModifier)
       IN  /\ node' = r.node
           /\ modifier' = r.modifier
           /\ last' = Done("add_attribute", r.exc, NoInfo)
    /\ UNCHANGED <<desc, given, native, num, comp, enum, assigned, attr, mat, heap>>

NextCreate ==
    \/ \E kwargs \in FlagKwargs :
          DescNew(Built(MessageInit("foo", kwargs)), None, <<>>)
    \/ \E kwargs \in FewKwargs :
          DescNew(Built(CurveInit("foo", kwargs)), None, <<>>)
    \/ \E b \in BOOLEAN, kwargs \in FewKwargs :
          DescNew(Built(BoolInit("foo", PyBool(b), kwargs)), PyBool(b), <<>>)
    \/ \E default \in {"", "foobar"}, as_filename \in BOOLEAN :
          DescNew(Built(StringInit("foo", default, as_filename, NoKwargs)),
                  Str(default), <<>>)
    \/ \E cls \in MatrixClasses, kwargs \in FewKwargs :
          DescNew(MatrixInit(cls, "foo", MMatrix(TestMatrix(2)), kwargs),
                  MMatrix(TestMatrix(2)), <<>>)
    \/ \E fields \in FieldArgs, default \in {None} \cup Indexes :
          DescNew(EnumInit("foo", fields, default, NoKwargs), default, <<>>)
    \/ \E cls \in AllNumericClasses, args \in LimitArgs :
       \E default \in DefaultsOf(cls), unit \in {NoUnit} \cup UnitsOf(cls) :
          DescNew(NumericAttributeInit(cls, "foo",
                                       [args EXCEPT !.default = default],
                                       unit, NoKwargs),
                  default, <<>>)
    \/ \E kwargs \in FlagKwargs :
          DescNew(NumericAttributeInit("Double", "foo", NoArgs, NoUnit, kwargs),
                  None, <<>>)
    \/ \E cls \in CreatedCompoundClasses :
          \E unit \in {NoUnit} \cup UnitsOf(cls),
             default, min \in TuplesOf(Len(CHILD_SUFFIXES(cls))) :
             DescNew(NumericCompoundAttributeInit(
                         cls, "foo",
                         [NoArgs EXCEPT !.default = default, !.min = min],
                         unit, NoKwargs),
                     default, <<>>)
    \/ \E n \in 0..MaxChildren : \E children \in Tuples(n, Children) :
          DescNew(Built(CompoundInit("foo", children, NoKwargs)), None,
                  children)
    \/ \E unit \in AngleUnits \cup DistanceUnits :
          /\ desc # None
          /\ unit \in UnitsOf(desc.cls)
          /\ DescSetUnit(unit)
    \/ \E child \in Children : DescAppend(child)
    \/ CreateMObject
    \/ AddToNetworkNode

SpecCreate == InitCreate /\ [][NextCreate]_vars

----------------------------------------------------------------------------
(* C14, C15: the children of compounds. *)

\* The magnitude of a stored value: the number itself, or the value of an
\* MAngle or MDistance.
Magnitude(v) == IF IsUnitValue(v) THEN v.value ELSE v

\* C14: a numeric compound named N has len(CHILD_SUFFIXES) children, each a
\* CHILD_CLS named N followed by its suffix, in suffix order; add_attribute
\* makes a compound plug with as many child plugs, in the same order, each
\* holding its child's default (the host's own default when the child has
\* none).
C14_NumericCompoundChildren ==
    (desc # None /\ desc.cls \in AllCompoundClasses) =>
       LET suffixes == CHILD_SUFFIXES(desc.cls)
       IN  /\ Len(desc.children) = Len(suffixes)
           /\ \A i \in 1..Len(suffixes) :
                 /\ desc.children[i].cls = CHILD_CLS(desc.cls)
                 /\ desc.children[i].name = desc.name \o suffixes[i]
           /\ desc.cls = "Color" =>
                 [i \in 1..3 |-> desc.children[i].name] = <<"fooR", "fooG", "fooB">>
           /\ node # None =>
                 LET plugs == PlugChildren(node, desc.name)
                 IN  /\ Len(plugs) = Len(suffixes)
                     /\ \A i \in 1..Len(plugs) :
                           LET default == desc.children[i].default
                           IN  /\ plugs[i] = desc.children[i].name
                               /\ node.plugs[plugs[i]].value =
                                     IF default = None THEN None
                                     ELSE Magnitude(default)

\* A numeric compound with three children of different defaults was added.
C14_Witness ==
    /\ desc # None
    /\ desc.cls = "Long3"
    /\ node # None
    /\ last.op = "add_attribute"
    /\ node.plugs["fooX"].value = PyInt(-1)
    /\ node.plugs["fooZ"].value = PyInt(1)

\* C15: Compound.children is the children given to the constructor followed
\* by the attributes passed to append, in call order; the plug add_attribute
\* makes of a Compound has one child plug per element of Compound.children,
\* in that order.
C15_CompoundChildren ==
    (desc # None /\ desc.cls = "Compound") =>
       /\ CompoundChildren(desc) = given.children
       /\ node # None =>
             LET plugs == PlugChildren(node, desc.name)
             IN  /\ Len(plugs) = Len(CompoundChildren(desc))
                 /\ \A i \in 1..Len(plugs) :
                       plugs[i] = CompoundChildren(desc)[i].name

\* A Compound built with one child and given another by append was added.
C15_Witness ==
    /\ desc # None
    /\ desc.cls = "Compound"
    /\ given.appended = 1
    /\ Len(given.children) = 2
    /\ node # None
    /\ last.op = "add_attribute"
    /\ PlugChildren(node, "foo") = <<"baz", "bar">>

----------------------------------------------------------------------------
(* C16..C19: what create_mobject and get_mfn_args hand to the host. *)

\* C16 as stated: the native attribute has the descriptor's value for every
\* flag of the descriptor: the eight create_mobject assigns and also cached,
\* internal, affects_appearence, affects_world_space, indeterminant,
\* index_matters and render_source.
C16_AllFlags ==
    native # None =>
       /\ native.keyable = desc.keyable
       /\ native.channelBox = desc.channel_box
       /\ native.hidden = desc.hidden
       /\ native.storable = desc.storable
       /\ native.connectable = desc.connectable
       /\ native.readable = desc.readable
       /\ native.writable = desc.writable
       /\ native.disconnectBehavior = desc.disconnect_behavior
       /\ native.cached = desc.cached
       /\ native.internal = desc.internal
       /\ native.affectsAppearance = desc.affects_appearence
       /\ native.affectsWorldSpace = desc.affects_world_space
       /\ native.indeterminant = desc.indeterminant
       /\ native.indexMatters = desc.index_matters
       /\ native.renderSource = desc.render_source

\* What create_mobject does: the native attribute has the descriptor's
\* value for keyable, channel_box, hidden, storable, connectable, readable,
\* writable and disconnect_behavior; the seven other flags are as the host
\* created them, whatever the descriptor says.
C16_AssignedFlags ==
    native # None =>
       /\ native.keyable = desc.keyable
       /\ native.channelBox = desc.channel_box
       /\ native.hidden = desc.hidden
       /\ native.storable = desc.storable
       /\ native.connectable = desc.connectable
       /\ native.readable = desc.readable
       /\ native.writable = desc.writable
       /\ native.disconnectBehavior = desc.disconnect_behavior
       /\ \A f \in DOMAIN MFnAttributeDefaults :
             native[f] = MFnAttributeDefaults[f]

\* A native attribute was made of a descriptor built with cached=False, and
\* it is cached.
C16_Witness ==
    /\ native # None
    /\ last.op = "create_mobject"
    /\ ~desc.cached
    /\ native.cached

\* What get_mfn_args hands over for the default of a NumericAttribute, and
\* what the plug then holds: nothing when the default is None; otherwise a
\* number, the stored default itself or, for an MAngle or MDistance, its
\* magnitude in the attribute's unit.
DefaultHandedOver ==
    LET args == native.args
    IN  /\ args[3] = DATA_TYPE(desc.cls)
        /\ IF desc.default = None THEN Len(args) = 3
           ELSE /\ Len(args) = 4
                /\ IsNumber(args[4])
                /\ IF IsUnitValue(desc.default)
                   THEN FMul(args[4], UnitFactor(desc.unit))
                           = Quantity(desc.default)
                   ELSE args[4] = desc.default
                /\ node # None => node.plugs[desc.name].value = args[4]

\* C17 as stated: the default handed over is the magnitude of the stored
\* default in the attribute's unit, which is the number the caller supplied
\* when the default was given as a plain number.
C17_SuppliedDefault ==
    (native # None /\ desc.cls \in AllNumericClasses) =>
       /\ DefaultHandedOver
       /\ IsNumber(given.default) =>
             AsFloat(native.args[4]) = AsFloat(given.default)

\* C17: the default handed over is the magnitude of the stored default in
\* the attribute's unit; when the default was given as a plain number and
\* the unit was not reassigned since, it is that number as NUMERIC_CLS
\* converts it (truncated toward zero for Long and Short).
C17_CoercedDefault ==
    (native # None /\ desc.cls \in AllNumericClasses) =>
       /\ DefaultHandedOver
       /\ (IsNumber(given.default) /\ ~given.reassigned) =>
             AsFloat(native.args[4]) =
                IF NUMERIC_CLS(desc.cls) = "int"
                THEN AsFloat(Trunc(AsFloat(given.default)))
                ELSE AsFloat(given.default)

\* A Distance built in meters with a plain number for default was handed
\* over and added: the plug holds the number.
C17_Witness ==
    /\ native # None
    /\ node # None
    /\ desc.cls = "Distance"
    /\ desc.unit = kMeters
    /\ ~given.reassigned
    /\ given.default = Float(-3, 2, 0)
    /\ native.args[4] = Float(-3, 2, 0)
    /\ node.plugs["foo"].value = Float(-3, 2, 0)

\* The limits a native attribute was given, as the properties they come
\* from: exactly those of the descriptor that are not None, each with the
\* stored value.
LimitsOf(attribute, mobj) ==
    /\ DOMAIN mobj.limits =
          {p \in {"min", "max", "soft_min", "soft_max"} : attribute[p] # None}
    /\ \A p \in DOMAIN mobj.limits : mobj.limits[p] = attribute[p]

\* C18: create_mobject calls setMin, setMax, setSoftMin and setSoftMax on
\* the native attribute of a NumericAttribute exactly for those of min, max,
\* soft_min and soft_max that are not None, with the stored value; the
\* bounds of a numeric compound reach the host through its children's
\* native attributes only, and none is set on the parent's.
C18_Limits ==
    native # None =>
       /\ desc.cls \in AllNumericClasses => LimitsOf(desc, native)
       /\ desc.cls \in AllCompoundClasses =>
             /\ DOMAIN native.limits = {}
             /\ Len(native.args) = 2 + Len(desc.children)
             /\ \A i \in 1..Len(desc.children) :
                   /\ LimitsOf(desc.children[i], native.args[2 + i])
                   /\ desc.children[i].min =
                         NumericCompoundPropertyGet(desc, "min")[i]
       /\ desc.cls \notin AllNumericClasses => DOMAIN native.limits = {}

\* A numeric compound given a min tuple whose first element is None was
\* handed over: its first child has no limit, its second has the minimum.
C18_Witness ==
    /\ native # None
    /\ last.op = "create_mobject"
    /\ desc.cls = "Angle2"
    /\ desc.children[1].min = None
    /\ DOMAIN native.args[3].limits = {}
    /\ DOMAIN native.args[4].limits = {"min"}
    /\ native.args[4].limits.min = MAngle(Float(-3, 2, 0), kDegrees)

\* The argument list of the native attribute, part by part: the long name,
\* the short name (the descriptor's when it has a non-empty one, the long
\* name otherwise); for a numeric compound one native child per child, in
\* order; for any other kind DATA_TYPE when typed says so, then what the
\* kind adds.
ArgumentList(typed) ==
    LET args == native.args
        short == IF desc.short_name \in {None, Str("")}
                 THEN Str(desc.name) ELSE desc.short_name
        head == IF typed THEN <<Str(desc.name), short, DATA_TYPE(desc.cls)>>
                ELSE <<Str(desc.name), short>>
    IN  IF desc.cls \in AllCompoundClasses
        THEN /\ Len(args) = 2 + Len(desc.children)
             /\ <<args[1], args[2]>> = <<Str(desc.name), short>>
             /\ \A i \in 1..Len(desc.children) :
                   /\ args[2 + i].t = "MObject"
                   /\ args[2 + i].args[1] = Str(desc.children[i].name)
        ELSE CASE desc.cls = "Bool" -> args = Append(head, desc.default)
               [] desc.cls = "Enum" -> args = Append(head, EnumDefaultGet(desc))
               [] desc.cls = "String" ->
                     args = Append(head, MFnStringData(desc.default))
               [] desc.cls \in AllNumericClasses /\ desc.default # None ->
                     /\ Len(args) = Len(head) + 1
                     /\ SubSeq(args, 1, Len(head)) = head
                     /\ IsNumber(args[Len(args)])
               [] OTHER -> args = head

\* C19: the argument list get_mfn_args builds starts with the long name and
\* the short name, the short name being the descriptor's short_name when
\* one was given and its long name otherwise; for a numeric compound it is
\* followed by one native child object per child, in order, and nothing
\* else; for every other kind by DATA_TYPE if and only if DATA_TYPE is not
\* the enumerator kInvalid, then by the default for Bool and Enum, a string
\* data object for String, the default for a NumericAttribute with a
\* non-None default, and nothing for the other kinds.
C19_ArgumentList ==
    native # None => ArgumentList(DATA_TYPE(desc.cls) # kInvalid)

\* C19, as the code compares: DATA_TYPE follows the names if and only if
\* its integer value differs from that of kInvalid.
C19_ArgumentListByValue ==
    native # None => ArgumentList(DATA_TYPE(desc.cls).n # kInvalid.n)

\* A FloatMatrix with a short name was handed over: the argument list is
\* the two names, without MFnMatrixAttribute.kFloat.
C19_Witness ==
    /\ native # None
    /\ last.op = "create_mobject"
    /\ desc.cls = "FloatMatrix"
    /\ desc.short_name = Str("f")
    /\ native.args = <<Str("foo"), Str("f")>>

\* C21: when a numeric compound is constructed with a unit argument u,
\* every child has unit u, so that the compound's unit always equals the
\* unit of each of its children.
C21_ChildrenUnit ==
    (desc # None /\ desc.cls \in AllCompoundClasses) =>
       \A i \in 1..Len(desc.children) : desc.children[i].unit = desc.unit

\* C21, as the constructor builds the children: each child has the default
\* unit of its class whatever unit the compound was given, and a plain
\* number given in the default tuple is stored as a quantity in that unit.
C21_ChildrenDefaultUnit ==
    (desc # None /\ desc.cls \in AllCompoundClasses) =>
       \A i \in 1..Len(desc.children) :
          LET child == desc.children[i]
          IN  /\ child.unit = DEFAULT_UNIT(CHILD_CLS(desc.cls))
              /\ (child.unit # NoUnit /\ IsNumber(given.default[i])) =>
                    /\ IsUnitValue(child.default)
                    /\ child.default.unit = child.unit
                    /\ child.default.value = AsFloat(given.default[i])

\* An Angle2 was built with unit radians and a plain number in its default:
\* its children are in degrees and the number is stored as degrees.
C21_Witness ==
    /\ desc # None
    /\ last.op = "desc_new"
    /\ desc.cls = "Angle2"
    /\ desc.unit = kRadians
    /\ desc.children[1].unit = kDegrees
    /\ given.default[2] = Float(-3, 2, 0)
    /\ desc.children[2].default = MAngle(Float(-3, 2, 0), kDegrees)

----------------------------------------------------------------------------
(* Numeric compounds: assignment of tuples of any length. *)

\* How many elements more than the compound has children a tuple may have.
MaxExtra == 1

ZipClasses == {"Angle2", "Long2"}

ZipValues == {None, Float(-3, 2, 0), Str("x")}

InitZip ==
    /\ \E cls \in ZipClasses :
          comp = NumericCompoundAttributeInit(cls, "foo", NoArgs, NoUnit,
                                              NoKwargs).obj
    /\ num = None
    /\ enum = None
    /\ assigned = None
    /\ attr = None
    /\ mat = None
    /\ desc = None
    /\ native = None
    /\ given = None
    /\ heap = None
    /\ node = None
    /\ modifier = None
    /\ last = Done("init", NoExc, NoInfo)

\* compound.<p> = value, value None or a tuple of any length
ZipSet(p, value) ==
    LET r == NumericCompoundPropertySet(comp, p, value)
    IN  /\ comp' = r.obj
        /\ last' = Done("zip_set", r.exc, [name |-> p, value |-> value])
        /\ UNCHANGED <<num, enum, assigned, attr, mat, node, modifier,
                       desc, native, given, heap>>

NextZip ==
    \/ \E p \in UsedProps : ZipSet(p, None)
    \/ \E p \in UsedProps, m \in 0..(Len(comp.children) + MaxExtra) :
          \E value \in Tuples(m, ZipValues) : ZipSet(p, value)

SpecZip == InitZip /\ [][NextZip]_vars

\* C22: assigning to a numeric-compound property a tuple whose length m
\* differs from the number of children n raises no error of its own: when
\* the first min(m, n) elements are values the children accept, nothing is
\* raised, the first min(m, n) children are assigned, the children beyond m
\* keep their value and the elements beyond n are ignored; assigning None
\* sets the property of every child to None.  No other property changes.
C22_Zip ==
    [][last'.op = "zip_set" =>
          LET name == last'.info.name
              value == last'.info.value
              n == Len(comp.children)
              m == IF IsNone(value) THEN n ELSE Len(value)
              elem(i) == IF IsNone(value) THEN None ELSE value[i]
          IN  (\A i \in 1..Min(m, n) :
                  ~Raised(Coerce(comp.children[i], elem(i)))) =>
                 /\ ~Raised(last')
                 /\ Len(comp'.children) = n
                 /\ \A i \in 1..n :
                       /\ comp'.children[i][name] =
                             IF i <= m
                             THEN Coerce(comp.children[i], elem(i)).val
                             ELSE comp.children[i][name]
                       /\ \A q \in PropSet \ {name} :
                             comp'.children[i][q] = comp.children[i][q]
                 /\ IsNone(value) =>
                       \A i \in 1..n : comp'.children[i][name] = None]_vars

\* A tuple of one element, None, was assigned to a compound of two children
\* and the second child still has its value; or a tuple of three elements,
\* the third one no number, was assigned without an error.
C22_Witness ==
    /\ last.op = "zip_set"
    /\ ~Raised(last)
    /\ ~IsNone(last.info.value)
    /\ \/ /\ last.info.value = <<None>>
          /\ comp.children[1][last.info.name] = None
          /\ comp.children[2][last.info.name] # None
       \/ /\ last.info.value = <<Float(-3, 2, 0), None, Str("x")>>
          /\ comp.children[1][last.info.name] # None

----------------------------------------------------------------------------
(* Descriptors by identity: Compound.append, create_mobject and the plug   *)
(* traversal of add_attribute over what append built.                      *)

\* The depth of nested create_mobject calls at which the interpreter raises
\* RecursionError.
RecursionLimit == 4

\* How many times Compound.append is called.
MaxAppends == 3

\* Six descriptors, as the constructors return them: two Compound, a Bool,
\* a Long2 and the two Long children its constructor made.  children holds
\* identities: the same descriptor may be in several lists, its own too.
TreeObjects ==
    <<[cls |-> "Compound", name |-> "a", children |-> <<>>],
      [cls |-> "Compound", name |-> "b", children |-> <<>>],
      [cls |-> "Bool", name |-> "c", children |-> <<>>],
      [cls |-> "Long2", name |-> "d", children |-> <<5, 6>>],
      [cls |-> "Long", name |-> "dX", children |-> <<>>],
      [cls |-> "Long", name |-> "dY", children |-> <<>>]>>

\* The descriptors the caller built, and appends or appends to.
Appendable == 1..4

\* No native attribute made, no plug visited.
NoCalls == [i \in DOMAIN TreeObjects |-> 0]

RECURSIVE CreateCalls(_, _, _, _)
RECURSIVE CreateChildren(_, _, _, _, _)

\* The nested calls create_mobject(child) for the children from the i-th
\* on; the first that raises ends them.
CreateChildren(objs, children, i, depth, made) ==
    IF i > Len(children) THEN [exc |-> NoExc, made |-> made]
    ELSE LET r == CreateCalls(objs, children[i], depth, made)
         IN  IF Raised(r) THEN r
             ELSE CreateChildren(objs, children, i + 1, depth, r.made)

\* create_mobject(objs[id]) at the given depth of nested calls: made counts
\* the native attributes mfn.create has made for each descriptor.  A
\* Compound's own is made before its children's, a numeric compound's
\* after (its children's are arguments of its mfn.create).
CreateCalls(objs, id, depth, made) ==
    IF depth > RecursionLimit
    THEN [exc |-> Exc("RecursionError", <<>>), made |-> made]
    ELSE IF objs[id].cls = "Compound"
         THEN CreateChildren(objs, objs[id].children, 1, depth + 1,
                             [made EXCEPT ![id] = @ + 1])
    ELSE LET r == CreateChildren(objs, objs[id].children, 1, depth + 1, made)
         IN  IF Raised(r) THEN r
             ELSE [exc |-> NoExc, made |-> [r.made EXCEPT ![id] = @ + 1]]

\* The traversal visiting the root only.
TraversePlugsRootOnly(objs, stack, visits, unlocked) ==
    [visits |-> [visits EXCEPT ![stack[1]] = @ + 1],
     unlocked |-> unlocked \cup {stack[1]}]

\* The loop `while stack` of add_attribute: pop the last, find its plug and
\* assign isLocked = False, push its children.
RECURSIVE TraversePlugs(_, _, _, _)
TraversePlugs(objs, stack, visits, unlocked) ==
    IF stack = <<>> THEN [visits |-> visits, unlocked |-> unlocked]
    ELSE LET current == stack[Len(stack)]
         IN  TraversePlugs(objs,
                           SubSeq(stack, 1, Len(stack) - 1)
                              \o objs[current].children,
                           [visits EXCEPT ![current] = @ + 1],
                           unlocked \cup {current})

InitTree ==
    /\ heap = [objs |-> TreeObjects, made |-> NoCalls, visits |-> NoCalls,
               unlocked |-> {}]
    /\ num = None
    /\ comp = None
    /\ enum = None
    /\ assigned = None
    /\ attr = None
    /\ mat = None
    /\ desc = None
    /\ native = None
    /\ given = None
    /\ node = None
    /\ modifier = None
    /\ last = Done("init", NoExc, [root |-> 0])

\* objs[parent].append(objs[child])
TreeAppend(parent, child) ==
    /\ heap.objs[parent].cls = "Compound"
    /\ Len(heap.objs[1].children) + Len(heap.objs[2].children) < MaxAppends
    /\ heap' = [objs |-> [heap.objs EXCEPT ![parent].children = Append(@, child)],
                made |-> NoCalls, visits |-> NoCalls, unlocked |-> {}]
    /\ last' = Done("append", NoExc, [root |-> 0])
    /\ UNCHANGED <<num, comp, enum, assigned, attr, mat, node, modifier, desc,
                   native, given>>

\* create_mobject(objs[root])
TreeCreate(root) ==
    LET r == CreateCalls(heap.objs, root, 1, NoCalls)
    IN  /\ heap' = [heap EXCEPT !.made = r.made, !.visits = NoCalls,
                                !.unlocked = {}]
        /\ last' = Done("create_mobject", r.exc, [root |-> root])
        /\ UNCHANGED <<num, comp, enum, assigned, attr, mat, node, modifier,
                       desc, native, given>>

\* add_attribute(network_node, objs[root], OpenMaya.MDGModifier()): the
\* traversal is reached when create_mobject has returned.
TreeAdd(root) ==
    LET r == CreateCalls(heap.objs, root, 1, NoCalls)
        t == TraversePlugs(heap.objs, <<root>>, NoCalls, {})
    IN  /\ heap' = IF Raised(r)
                   THEN [heap EXCEPT !.made = r.made, !.visits = NoCalls,
                                     !.unlocked = {}]
                   ELSE [heap EXCEPT !.made = r.made, !.visits = t.visits,
                                     !.unlocked = t.unlocked]
        /\ last' = Done("add_attribute", r.exc, [root |-> root])
        /\ UNCHANGED <<num, comp, enum, assigned, attr, mat, node, modifier,
                       desc, native, given>>

NextTree ==
    \/ \E parent, child \in Appendable : TreeAppend(parent, child)
    \/ \E root \in DOMAIN TreeObjects : TreeCreate(root)
    \/ \E root \in DOMAIN TreeObjects : TreeAdd(root)

SpecTree == InitTree /\ [][NextTree]_vars

\* The descriptors reached from those of S in at most n steps down.
RECURSIVE Descendants(_, _, _)
Descendants(objs, S, n) ==
    IF n = 0 THEN S
    ELSE Descendants(objs,
                     S \cup UNION {Range(objs[i].children) : i \in S}, n - 1)

\* The descriptors under root, root included.
TreeOf(objs, root) == Descendants(objs, {root}, Len(objs))

\* Each descriptor under root is there once: it is in one children list,
\* once, and root is in none.
IsTree(objs, root) ==
    LET R == TreeOf(objs, root)
    IN  /\ \A i \in R :
              /\ Cardinality(Range(objs[i].children)) = Len(objs[i].children)
              /\ root \notin Range(objs[i].children)
        /\ \A i, j \in R :
              i # j => Range(objs[i].children) \cap Range(objs[j].children) = {}

\* One native attribute made and, after add_attribute, one plug visited and
\* set unlocked for each descriptor under the root, none for the others,
\* and nothing raised.
EachOnce ==
    LET R == TreeOf(heap.objs, last.info.root)
        once == [i \in DOMAIN heap.objs |-> IF i \in R THEN 1 ELSE 0]
    IN  /\ ~Raised(last)
        /\ heap.made = once
        /\ last.op = "add_attribute" =>
              /\ heap.visits = once
              /\ heap.unlocked = R

\* C23: for every descriptor built with the constructors and
\* Compound.append, create_mobject and the plug traversal of add_attribute
\* terminate, and they make one native attribute and visit one plug, setting
\* it unlocked, for each descriptor in the tree: the root and each
\* transitive child exactly once.
C23_EachOnce ==
    last.op \in {"create_mobject", "add_attribute"} => EachOnce

\* C23, where every descriptor under the root was appended once and none
\* under itself.
C23_EachOnceInTree ==
    (/\ last.op \in {"create_mobject", "add_attribute"}
     /\ IsTree(heap.objs, last.info.root)) => EachOnce

\* add_attribute was given a Compound holding a Compound with a Bool in it
\* and a Long2: six native attributes were made and six plugs visited.
C23_Witness ==
    /\ last.op = "add_attribute"
    /\ last.info.root = 1
    /\ heap.objs[1].children = <<2, 4>>
    /\ heap.objs[2].children = <<3>>
    /\ heap.made = [i \in 1..6 |-> 1]
    /\ heap.visits = [i \in 1..6 |-> 1]
    /\ heap.unlocked = 1..6

----------------------------------------------------------------------------
(* C24: assigning to a property the value just read from it. *)

Reassigned(l) == l.op \in {"child_reassign", "compound_reassign"}

\* C24: re-assigning to a numeric property, or to a numeric-compound
\* property, the value just read from it never raises and leaves every
\* stored value unchanged.
C24_ReassignUnchanged ==
    [][Reassigned(last') => ~Raised(last') /\ comp' = comp]_vars

\* C24 (amended): the re-assignment never raises; a re-assigned child holds
\* exactly the value it held when that value is None, a plain number or a
\* quantity in the child's unit, and otherwise (the child's unit was
\* reassigned after the value was stored) the same quantity expressed in
\* the child's current unit.  No other property, child or unit changes.
C24_Reassign ==
    [][Reassigned(last') =>
          LET name == last'.info.name
              which == IF last'.info.child = 0 THEN 1..Len(comp.children)
                       ELSE {last'.info.child}
          IN  /\ ~Raised(last')
              /\ Len(comp'.children) = Len(comp.children)
              /\ \A i \in 1..Len(comp.children) \ which :
                    comp'.children[i] = comp.children[i]
              /\ \A i \in which :
                    LET old == comp.children[i][name]
                        new == comp'.children[i][name]
                    IN  /\ IF IsUnitValue(old)
                              /\ old.unit # comp.children[i].unit
                           THEN /\ new.t = old.t
                                /\ new.unit = comp.children[i].unit
                                /\ Quantity(new) = Quantity(old)
                           ELSE new = old
                        /\ comp'.children[i] =
                              [comp.children[i] EXCEPT ![name] = new]]_vars

\* A compound property was re-assigned the tuple read from it, every child
\* holding a quantity in its unit.
C24_Witness ==
    /\ last.op = "compound_reassign"
    /\ ~Raised(last)
    /\ \A i \in 1..Len(comp.children) :
          /\ IsUnitValue(comp.children[i][last.info.name])
          /\ comp.children[i][last.info.name].unit = comp.children[i].unit
    /\ \E i \in 1..Len(comp.children) : comp.children[i].unit = kRadians

----------------------------------------------------------------------------
(* C25: the default of an Enum is one of its fields. *)

\* C25: after any sequence of successful and failed assignments to
\* Enum.default, whenever fields is not empty the value read from
\* Enum.default is a key of fields, and the default index create_mobject
\* hands to the host's create call is one of the fields it then adds with
\* addField.
C25_DefaultIsField ==
    DOMAIN EnumFields(enum) # {} =>
       LET mobj == create_mobject(enum)
       IN  /\ EnumDefaultGet(enum).n \in DOMAIN EnumFields(enum)
           /\ mobj.args[Len(mobj.args)] = EnumDefaultGet(enum)
           /\ mobj.args[Len(mobj.args)].n \in DOMAIN mobj.fields

\* An assignment to the default of an Enum with fields has just failed,
\* after one that succeeded: the default read is the key assigned before.
C25_Witness ==
    /\ last.op = "enum_set_default"
    /\ Raised(last)
    /\ DOMAIN EnumFields(enum) # {}
    /\ enum._default # None
    /\ EnumDefaultGet(enum) = assigned
    /\ EnumDefaultGet(enum) # last.info.value

====
